---- MODULE Spec2Model ----
(***************************************************************************)
(* Verification model of sim-explorer: the case tree with its inherited    *)
(* action tables (Case.__init__, Case.read_spec_item), the registration of *)
(* set and get actions (SystemInterface.add_actions), the run loop         *)
(* (Case.run) and the evaluation of assertions over a time series          *)
(* (Assertion.eval_series).                                                *)
(*                                                                         *)
(* Times: the user writes times in the time unit of the cases file; the    *)
(* program multiplies them by Cases.timefac to get the simulator clock.    *)
(* User times are modelled as naturals and timefac as the small factor     *)
(* TimeFac, so that every product is an integer.                           *)
(***************************************************************************)
EXTENDS Integers, Sequences, FiniteSets, TLC

(* ------------------------------- bounds -------------------------------- *)
MaxTime == 3
TimeFac == 2
MaxSpecLen == 1
MaxEdits == 1
MaxChildren == 2
MaxRunSpecLen == 3
MaxRows == 5
MaxRecs == 3
MaxVars == 2
MaxRuns == 2
MaxStamp == 4
MaxVal == 2
MaxSamples == 3
MaxIndex == 4
MaxParts == 2
MaxAsserts == 2

(* --------------------------- generic helpers --------------------------- *)
Range(s) == {s[i] : i \in DOMAIN s}

SeqsUpTo(S, n) == UNION {[1..k -> S] : k \in 0..n}

\* F applied to the value of e, with e evaluated once
Bind(e, F(_)) == CHOOSE r \in {F(x) : x \in {e}} : TRUE

\* list.index / tuple.index: position of the first occurrence, 0 when there is none
IndexOf(s, x) == IF \E i \in DOMAIN s : s[i] = x
                 THEN CHOOSE i \in DOMAIN s : s[i] = x /\ \A j \in 1..(i-1) : s[j] # x
                 ELSE 0

(* ------------------------ the variable registry ------------------------ *)
\* Cases.variables as Cases.get_case_variables builds it: per alias the
\* instances, the value references, the shared type, causality and variability, the
\* FMU's initial attribute ("" when absent) and the start values (empty when
\* the FMU declares none).
variables ==
  [ g |-> [instances |-> <<"bb">>, refs |-> <<5>>,
           type |-> "float", causality |-> "parameter", variability |-> "fixed",
           initial |-> "exact", start |-> <<0>>],
    x |-> [instances |-> <<"bb", "b2">>, refs |-> <<1, 3>>,
           type |-> "float", causality |-> "input", variability |-> "continuous",
           initial |-> "", start |-> <<0, 0>>],
    h |-> [instances |-> <<"bb">>, refs |-> <<7>>,
           type |-> "float", causality |-> "output", variability |-> "continuous",
           initial |-> "", start |-> <<>>],
    p |-> [instances |-> <<"bb">>, refs |-> <<9, 10, 11>>,
           type |-> "float", causality |-> "local", variability |-> "continuous",
           initial |-> "", start |-> <<>>] ]

CVars == DOMAIN variables
Comps == {"bb", "b2"}
SpecialKeys == {"startTime", "stopTime", "stepSize"}

\* Cases.get_starts: the start values of the case variables that have any
get_starts == [v \in {w \in CVars : Len(variables[w].start) > 0} |-> variables[v].start]

(* ------------------------------ spec items ----------------------------- *)
\* The value of a spec item: None, the marker 'res'/'result', or a list of values
None == [k |-> "none", v |-> <<>>]
ResMarker == [k |-> "res", v |-> <<>>]
Vals(s) == [k |-> "vals", v |-> s]

\* The text after '@': no '@' at all, nothing after the '@', a number, 'step',
\* 'step<number>', 'step' and a text that is no number, anything else
AtNone == [k |-> "none", arg |-> 0]
AtEmpty == [k |-> "empty", arg |-> 0]
AtStepText == [k |-> "steptext", arg |-> 0]
AtNum(t) == [k |-> "num", arg |-> t]
AtStep == [k |-> "step", arg |-> 0]
AtStepN(d) == [k |-> "stepn", arg |-> d]
AtBad == [k |-> "bad", arg |-> 0]

\* A part of the text in brackets, the parts separated by commas: an integer,
\* two bounds with '..' or '...' between them (<<>> for an omitted bound, <<i>>
\* for the integer i), or a text that is neither
Index(i) == [k |-> "idx", i |-> i, lo |-> <<>>, hi |-> <<>>]
Ellipsis(a, b) == [k |-> "ell", i |-> 0, lo |-> a, hi |-> b]
NoInt == [k |-> "bad", i |-> 0, lo |-> <<>>, hi |-> <<>>]

\* The text in brackets: no bracket, or the parts; an index list and one
\* ellipsis range in particular
RngNone == [k |-> "none", parts |-> <<>>]
RngParts(ps) == [k |-> "parts", parts |-> ps]
RngList(s) == RngParts([i \in DOMAIN s |-> Index(s[i])])
RngEllipsis(a, b) == RngParts(<<Ellipsis(a, b)>>)

Item(name, rng, at, val) == [var |-> name, rng |-> rng, at |-> at, val |-> val]

\* Case._num_elements
num_elements(value) ==
  IF value.k = "none" THEN 0
  ELSE IF value.k = "vals" THEN Len(value.v)
  ELSE 1

(* --------------------------- parsing a spec key ------------------------ *)
\* Case._disect_at_time_spec: (ok, type of action, time argument). The name
\* before '@' is pre; an empty pre is rejected.
disect_at_time_spec(pre, at, value0, stopTime) ==
  LET value == IF value0.k = "res" THEN None ELSE value0 IN
  IF pre = "" THEN [ok |-> FALSE, typ |-> "", arg |-> 0]
  ELSE IF at.k \in {"none", "empty"}
    THEN IF value.k = "none"
         THEN [ok |-> TRUE, typ |-> "get", arg |-> stopTime]
         ELSE IF num_elements(value) = 0
              THEN [ok |-> FALSE, typ |-> "", arg |-> 0]
              ELSE [ok |-> TRUE, typ |-> "set", arg |-> 0]
  ELSE IF at.k = "num"
    THEN [ok |-> TRUE, typ |-> IF num_elements(value) > 0 THEN "set" ELSE "get", arg |-> at.arg]
  ELSE IF at.k = "stepn" THEN [ok |-> TRUE, typ |-> "step", arg |-> at.arg]
  ELSE IF at.k \in {"step", "steptext"} THEN [ok |-> TRUE, typ |-> "step", arg |-> -1]
  ELSE [ok |-> FALSE, typ |-> "", arg |-> 0]

\* range(a, b) with b itself as the last index
PyRange_closed(a, b) == [i \in 1..(IF b >= a THEN b - a + 1 ELSE 0) |-> a + i - 1]

\* range(a, b) as a sequence of indices
PyRange(a, b) == [i \in 1..(IF b > a THEN b - a ELSE 0) |-> a + i - 1]

\* The loop of Cases.disect_variable over the parts between the brackets:
\* (ok, rng, list), list telling whether rng is still a list
RECURSIVE disect_parts(_, _, _, _)
disect_parts(parts, i, st, cvar_len) ==
  IF ~st.ok \/ i > Len(parts) THEN st
  ELSE LET p == parts[i] IN
    IF p.k = "idx"
    THEN IF 0 <= p.i /\ p.i < cvar_len /\ st.list
         THEN disect_parts(parts, i + 1, [st EXCEPT !.rng = Append(@, p.i)], cvar_len)
         ELSE [st EXCEPT !.ok = FALSE]
    ELSE IF p.k = "ell"
    THEN LET idx0 == IF Len(p.lo) = 0 THEN 0 ELSE p.lo[1]
             idx1 == IF Len(p.hi) = 0 THEN cvar_len ELSE p.hi[1]
         IN IF 0 <= idx0 /\ idx0 <= cvar_len /\ idx0 <= idx1 /\ idx1 <= cvar_len
            THEN disect_parts(parts, i + 1,
                              [ok |-> TRUE, rng |-> PyRange(idx0, idx1), list |-> FALSE], cvar_len)
            ELSE [st EXCEPT !.ok = FALSE]
    ELSE [st EXCEPT !.ok = FALSE]

\* Cases.disect_variable at err_level 2: (ok, indices); a failure raises
disect_variable(pre, r) ==
  IF pre \notin CVars THEN [ok |-> FALSE, rng |-> <<>>]
  ELSE LET cvar_len == Len(variables[pre].refs) IN
    IF r.k = "parts"
    THEN LET st == disect_parts(r.parts, 1, [ok |-> TRUE, rng |-> <<>>, list |-> TRUE], cvar_len)
         IN [ok |-> st.ok, rng |-> IF st.ok THEN st.rng ELSE <<>>]
    ELSE IF cvar_len = 1 THEN [ok |-> TRUE, rng |-> <<0>>]
    ELSE [ok |-> TRUE, rng |-> PyRange(0, cvar_len)]

(* ---------------------------- legality rules --------------------------- *)
CausalityCol == [parameter |-> 1, calculated_parameter |-> 2, input |-> 3,
                 output |-> 4, local |-> 5, independent |-> 6]
VariabilityRow == [constant |-> 1, fixed |-> 2, tunable |-> 3, discrete |-> 4, continuous |-> 5]
InitialTable == << <<-1, -1, -1, 7, 10, -3>>,
                   <<1, 3, -4, -5, 11, -3>>,
                   <<2, 4, -4, -5, 12, -3>>,
                   <<-2, -2, 5, 8, 13, -3>>,
                   <<-2, -2, 6, 9, 14, 15>> >>

\* SystemInterface.default_initial with only_default: 'exact', 'calculated',
\* or the table's number (rendered "num") for every other entry
default_initial(causality, variability) ==
  LET init == InitialTable[VariabilityRow[variability]][CausalityCol[causality]] IN
  IF init < 0 THEN "num"
  ELSE IF init \in {1, 2, 7, 10} THEN "exact"
  ELSE IF init \in {3, 4, 11, 12} THEN "calculated"
  ELSE IF init \in {8, 9, 13, 14} THEN "calculated"
  ELSE "num"

\* SystemInterface.allowed_action on the variables that variable_iter yields:
\* infos[i] is the description of the variable named varnames[i]. The result is
\* (ok, raised, msg): the value returned, whether the call raised, and the
\* message a failed check leaves in SystemInterface.message (<<>>: the message
\* is left as it was). The first variable defines type, causality and
\* variability and is checked against the rules of the action; every later
\* variable is only compared with these properties. An empty tuple of names
\* raises in variable_iter.
NoMessage == <<>>

\* allowed_action_first with the rule of time 0 narrowed to the inputs whose
\* initial is exact or approx
allowed_action_first_input_only(action, info, name, time) ==
  LET causality == info.causality
      variability == info.variability
      initial == IF info.initial = "" THEN default_initial(causality, variability) ELSE info.initial
  IN IF action \in {"get", "step"} THEN [ok |-> TRUE, raised |-> FALSE, msg |-> NoMessage]
     ELSE IF action = "set"
     THEN IF time < 0 /\ ~(variability # "constant" /\ initial \in {"exact", "approx"})
          THEN [ok |-> FALSE, raised |-> FALSE, msg |-> <<"Change of", name, "before EnterInitialization">>]
          ELSE IF time = 0 /\ ~(variability # "constant" /\ initial \in {"exact", "approx"} /\ causality = "input")
          THEN [ok |-> FALSE, raised |-> FALSE, msg |-> <<"Change of", name, "during Initialization">>]
          ELSE IF time > 0 /\ ~((causality = "parameter" /\ variability = "tunable") \/ causality = "input")
          THEN [ok |-> FALSE, raised |-> FALSE, msg |-> <<"Change of", name, "at communication point">>]
          ELSE [ok |-> TRUE, raised |-> FALSE, msg |-> NoMessage]
     ELSE [ok |-> TRUE, raised |-> FALSE, msg |-> NoMessage]

\* allowed_action_first with every parameter settable at communication points
allowed_action_first_any_parameter(action, info, name, time) ==
  LET causality == info.causality
      variability == info.variability
      initial == IF info.initial = "" THEN default_initial(causality, variability) ELSE info.initial
  IN IF action \in {"get", "step"} THEN [ok |-> TRUE, raised |-> FALSE, msg |-> NoMessage]
     ELSE IF action = "set"
     THEN IF time < 0 /\ ~(variability # "constant" /\ initial \in {"exact", "approx"})
          THEN [ok |-> FALSE, raised |-> FALSE, msg |-> <<"Change of", name, "before EnterInitialization">>]
          ELSE IF time = 0 /\ ~(variability # "constant" /\ (initial = "exact" \/ causality = "input"))
          THEN [ok |-> FALSE, raised |-> FALSE, msg |-> <<"Change of", name, "during Initialization">>]
          ELSE IF time > 0 /\ ~(causality = "parameter" \/ causality = "input")
          THEN [ok |-> FALSE, raised |-> FALSE, msg |-> <<"Change of", name, "at communication point">>]
          ELSE [ok |-> TRUE, raised |-> FALSE, msg |-> NoMessage]
     ELSE [ok |-> TRUE, raised |-> FALSE, msg |-> NoMessage]

allowed_action_first(action, info, name, time) ==
  LET causality == info.causality
      variability == info.variability
      initial == IF info.initial = "" THEN default_initial(causality, variability) ELSE info.initial
  IN IF action \in {"get", "step"} THEN [ok |-> TRUE, raised |-> FALSE, msg |-> NoMessage]
     ELSE IF action = "set"
     THEN IF time < 0 /\ ~(variability # "constant" /\ initial \in {"exact", "approx"})
          THEN [ok |-> FALSE, raised |-> FALSE, msg |-> <<"Change of", name, "before EnterInitialization">>]
          ELSE IF time = 0 /\ ~(variability # "constant" /\ (initial = "exact" \/ causality = "input"))
          THEN [ok |-> FALSE, raised |-> FALSE, msg |-> <<"Change of", name, "during Initialization">>]
          ELSE IF time > 0 /\ ~((causality = "parameter" /\ variability = "tunable") \/ causality = "input")
          THEN [ok |-> FALSE, raised |-> FALSE, msg |-> <<"Change of", name, "at communication point">>]
          ELSE [ok |-> TRUE, raised |-> FALSE, msg |-> NoMessage]
     ELSE [ok |-> TRUE, raised |-> FALSE, msg |-> NoMessage]

\* The comparison of the variables i, i+1, ... with the properties of the first
RECURSIVE allowed_action_equal(_, _, _)
allowed_action_equal(infos, varnames, i) ==
  IF i > Len(infos) THEN [ok |-> TRUE, raised |-> FALSE, msg |-> NoMessage]
  ELSE IF infos[i].type # infos[1].type
  THEN [ok |-> FALSE, raised |-> FALSE, msg |-> <<"Variable", varnames[i], "!= type">>]
  ELSE IF infos[i].causality # infos[1].causality
  THEN [ok |-> FALSE, raised |-> FALSE, msg |-> <<"Variable", varnames[i], "!= causality">>]
  ELSE IF infos[i].variability # infos[1].variability
  THEN [ok |-> FALSE, raised |-> FALSE, msg |-> <<"Variable", varnames[i], "!= variability">>]
  ELSE allowed_action_equal(infos, varnames, i + 1)

allowed_action(action, infos, varnames, time) ==
  IF Len(varnames) = 0 THEN [ok |-> FALSE, raised |-> TRUE, msg |-> NoMessage]
  ELSE LET first == allowed_action_first(action, infos[1], varnames[1], time)
       IN IF ~first.ok THEN first ELSE allowed_action_equal(infos, varnames, 2)

(* ------------------------- registering actions ------------------------- *)
\* A value that no variable takes: the None of update_refs_values
NoVal == -1

\* allvals after the assignments allvals[allrefs.index(refs[i])] = vals[i], i = 1..n
RECURSIVE AssignAll(_, _, _, _, _)
AssignAll(allvals, allrefs, refs, vals, i) ==
  IF i > Len(refs) THEN allvals
  ELSE AssignAll([allvals EXCEPT ![IndexOf(allrefs, refs[i])] = vals[i]], allrefs, refs, vals, i + 1)

\* The subsequence of the positions of s at which keep holds
RECURSIVE Pick(_, _, _)
Pick(s, keep, i) ==
  IF i > Len(s) THEN <<>>
  ELSE (IF keep[i] THEN <<s[i]>> ELSE <<>>) \o Pick(s, keep, i + 1)

\* update_refs_values with the two assignment loops in the wrong order: the
\* base values overwrite the new ones
update_refs_values_base_last(allrefs, baserefs, basevals, refs, values) ==
  LET none == [i \in DOMAIN allrefs |-> NoVal]
      a1 == AssignAll(none, allrefs, refs, values, 1)
      allvals == AssignAll(a1, allrefs, baserefs, basevals, 1)
      keep == [i \in DOMAIN allrefs |-> allvals[i] # NoVal]
  IN [ok |-> TRUE, refs |-> Pick(allrefs, keep, 1), vals |-> Pick(allvals, keep, 1)]

\* SystemInterface.update_refs_values: (ok, refs, vals); a ref outside allrefs
\* raises ValueError, a base ref without a base value IndexError
update_refs_values(allrefs, baserefs, basevals, refs, values) ==
  IF \/ \E i \in DOMAIN baserefs : IndexOf(allrefs, baserefs[i]) = 0 \/ i > Len(basevals)
     \/ \E i \in DOMAIN refs : IndexOf(allrefs, refs[i]) = 0 \/ i > Len(values)
  THEN [ok |-> FALSE, refs |-> <<>>, vals |-> <<>>]
  ELSE LET none == [i \in DOMAIN allrefs |-> NoVal]
           a1 == AssignAll(none, allrefs, baserefs, basevals, 1)
           allvals == AssignAll(a1, allrefs, refs, values, 1)
           keep == [i \in DOMAIN allrefs |-> allvals[i] # NoVal]
       IN [ok |-> TRUE, refs |-> Pick(allrefs, keep, 1), vals |-> Pick(allvals, keep, 1)]

\* A set action is (case variable, component, refs, values), a get action
\* (case variable, component, refs)
SetAct(cvar, comp, refs, values) == <<cvar, comp, refs, values>>
GetAct(cvar, comp, refs) == <<cvar, comp, refs>>

\* Position of the first action of the list for (cvar, comp), 0 when there is none
Match(lst, cvar, comp) ==
  IF \E i \in DOMAIN lst : lst[i][1] = cvar /\ lst[i][2] = comp
  THEN CHOOSE i \in DOMAIN lst : /\ lst[i][1] = cvar /\ lst[i][2] = comp
                                /\ \A j \in 1..(i-1) : ~(lst[j][1] = cvar /\ lst[j][2] = comp)
  ELSE 0

\* _add_set without the search for an existing action: always a new action
add_set_append(lst, cvar, comp, cvar_info, values, rng) ==
  LET refs == [i \in DOMAIN rng |-> cvar_info.refs[rng[i] + 1]]
  IN IF Len(refs) # Len(values) THEN [ok |-> FALSE, lst |-> lst]
     ELSE [ok |-> TRUE, lst |-> Append(lst, SetAct(cvar, comp, refs, values))]

\* SystemInterface._add_set on the action list of one time slot: (ok, list)
add_set(lst, cvar, comp, cvar_info, values, rng) ==
  LET refs == [i \in DOMAIN rng |-> cvar_info.refs[rng[i] + 1]]
      i == Match(lst, cvar, comp)
  IN IF Len(refs) # Len(values) THEN [ok |-> FALSE, lst |-> lst]
     ELSE IF i # 0
     THEN LET u == update_refs_values(cvar_info.refs, lst[i][3], lst[i][4], refs, values)
          IN IF u.ok THEN [ok |-> TRUE, lst |-> [lst EXCEPT ![i] = SetAct(cvar, comp, u.refs, u.vals)]]
             ELSE [ok |-> FALSE, lst |-> lst]
     ELSE [ok |-> TRUE, lst |-> Append(lst, SetAct(cvar, comp, refs, values))]

\* _add_get without the search for an existing action
add_get_append(lst, cvar, comp, cvar_info) ==
  Append(lst, GetAct(cvar, comp, cvar_info.refs))

\* SystemInterface._add_get on the action list of one time slot
add_get(lst, cvar, comp, cvar_info) ==
  IF Match(lst, cvar, comp) # 0 THEN lst
  ELSE Append(lst, GetAct(cvar, comp, cvar_info.refs))

(* ------------------------ action tables and heap ----------------------- *)
\* An action table (Case.act_set, Case.act_get) is a dict: a sequence of slots
\* (time, list) in insertion order, where list is the identity of a list
\* object in the heap `lists`. Two tables that name the same list share it.
HasSlot(d, t) == \E i \in DOMAIN d : d[i].t = t
SlotOf(d, t) == d[CHOOSE i \in DOMAIN d : d[i].t = t].l
SlotTimes(d) == {d[i].t : i \in DOMAIN d}

\* np.arange(start=a, stop=s, step=a) for a > 0: a, 2a, ... below s
Arange(a, s) == [k \in 1..(IF s > a THEN (s - 1) \div a ELSE 0) |-> a * k]

\* The loop `for time in np.arange(...): self._add_get(actions, time, ...)`:
\* _add_get reads actions[time], which raises KeyError for a time without slot
RECURSIVE AddGets(_, _, _, _, _, _, _)
AddGets(L, d, times, j, cvar, comp, cvar_info) ==
  IF L.err \/ j > Len(times) THEN L
  ELSE IF ~HasSlot(d, times[j]) THEN [L EXCEPT !.err = TRUE]
  ELSE LET lid == SlotOf(d, times[j]) IN
       Bind([L EXCEPT !.lists[lid] = add_get(L.lists[lid], cvar, comp, cvar_info)],
            LAMBDA L1 : AddGets(L1, d, times, j + 1, cvar, comp, cvar_info))

\* The loop over cvar_info["instances"] of SystemInterface.add_actions; L is
\* (lists, err), d the table whose slot at at_time exists
RECURSIVE AddForComps(_, _, _, _, _, _, _, _, _, _)
AddForComps(L, d, act_type, cvar, cvar_info, values, at_time, stoptime, rng, i) ==
  IF L.err \/ i > Len(cvar_info.instances) THEN L
  ELSE LET comp == cvar_info.instances[i]
           lid == SlotOf(d, at_time)
           L1 == IF act_type = "get" \/ (act_type = "step" /\ at_time = -1)
                 THEN [L EXCEPT !.lists[lid] = add_get(L.lists[lid], cvar, comp, cvar_info)]
                 ELSE IF act_type = "step" /\ at_time >= 0
                 THEN IF at_time = 0 THEN [L EXCEPT !.err = TRUE]
                      ELSE AddGets(L, d, Arange(at_time, stoptime), 1, cvar, comp, cvar_info)
                 ELSE IF act_type = "set"
                 THEN IF values.k = "none" THEN [L EXCEPT !.err = TRUE]
                      ELSE LET r == add_set(L.lists[lid], cvar, comp, cvar_info, values.v, rng)
                           IN IF r.ok THEN [L EXCEPT !.lists[lid] = r.lst]
                              ELSE [L EXCEPT !.err = TRUE]
                 ELSE [L EXCEPT !.err = TRUE]
       IN Bind(L1, LAMBDA L2 : AddForComps(L2, d, act_type, cvar, cvar_info, values,
                                           at_time, stoptime, rng, i + 1))

\* SystemInterface.add_actions on table tab ("act_set" or "act_get") of case c
\* in the state S = (case, lists, specials, message, err)
add_actions(S, c, tab, act_type, cvar, cvar_info, values, at_time, stoptime, rng) ==
  LET d0 == S.case[c][tab]
      fresh == ~HasSlot(d0, at_time)
      lists1 == IF fresh THEN Append(S.lists, <<>>) ELSE S.lists
      d1 == IF fresh THEN Append(d0, [t |-> at_time, l |-> Len(lists1)]) ELSE d0
  IN Bind(AddForComps([lists |-> lists1, err |-> FALSE], d1, act_type, cvar, cvar_info,
                      values, at_time, stoptime, rng, 1),
          LAMBDA L : [S EXCEPT !.case[c][tab] = d1, !.lists = L.lists, !.err = L.err])

(* ------------------------------- the cases ----------------------------- *)
\* Case.read_spec_item on case c; a raised exception sets err and leaves what
\* was changed before it
read_spec_item(S, c, item) ==
  LET sid == S.case[c].special IN
  IF item.var \in SpecialKeys
  THEN [S EXCEPT !.specials[sid][item.var] = item.val.v[1]]
  ELSE LET special == S.specials[sid]
           a == disect_at_time_spec(item.var, item.at, item.val, special.stopTime)
           value == IF a.typ \in {"get", "step"} THEN None ELSE item.val
           dv == disect_variable(item.var, item.rng)
           cvar_info == variables[item.var]
           varnames == [i \in DOMAIN dv.rng |-> <<item.var, dv.rng[i]>>]
           al == allowed_action(a.typ, [i \in DOMAIN dv.rng |-> cvar_info], varnames, a.arg)
       IN IF ~a.ok \/ ~dv.ok THEN [S EXCEPT !.err = TRUE]
          ELSE IF value.k # "none" /\ Len(dv.rng) # num_elements(value) THEN [S EXCEPT !.err = TRUE]
          ELSE IF al.raised THEN [S EXCEPT !.err = TRUE]
          ELSE IF ~al.ok THEN [S EXCEPT !.err = TRUE, !.message = al.msg]
          ELSE add_actions(S, c, IF a.typ \in {"get", "step"} THEN "act_get" ELSE "act_set",
                           a.typ, item.var, cvar_info, value,
                           IF a.arg <= 0 THEN a.arg ELSE a.arg * TimeFac,
                           special.stopTime, dv.rng)

\* The names of the cases, in the order in which they are made
ChildNames == <<"c1", "c2", "c3">>
CaseNames == {"base"} \cup {ChildNames[i] : i \in 1..MaxChildren}

\* A case that does not exist (yet)
NoCase == [status |-> "none", parent |-> "", subs |-> <<>>, special |-> 0,
           act_set |-> <<>>, act_get |-> <<>>]

\* copy.copy of an action table: the same list objects
shallow_copy(lists, d) == [lists |-> lists, d |-> d]

\* copy.deepcopy of an action table: a new list object per slot with the same
\* content; (lists, d)
deepcopy(lists, d) ==
  [lists |-> lists \o [i \in DOMAIN d |-> lists[d[i].l]],
   d |-> [i \in DOMAIN d |-> [t |-> d[i].t, l |-> Len(lists) + i]]]

\* dict(self.parent.special): a new dict object with the parent's entries;
\* (specials, identity of the new dict)
copy_special(specials, pid) ==
  [specials |-> Append(specials, specials[pid]), sid |-> Len(specials) + 1]

\* dict(sorted(d.items())): the slots in ascending order of time
sorted_items(d) ==
  LET rank(i) == Cardinality({j \in DOMAIN d : d[j].t < d[i].t}) + 1
  IN [k \in DOMAIN d |-> d[CHOOSE i \in DOMAIN d : rank(i) = k]]

\* The loops over $.spec and $.results of Case.__init__: the first item that
\* raises ends them
RECURSIVE ReadItems(_, _, _, _)
ReadItems(S, c, items, i) ==
  IF S.err \/ i > Len(items) THEN S
  ELSE Bind(read_spec_item(S, c, items[i]), LAMBDA S1 : ReadItems(S1, c, items, i + 1))

\* Case.__init__ for case `name` with parent `par` (unused for 'base', which
\* takes the special dict special0) and the given spec items
Construct(S, name, par, items, special0) ==
  LET isBase == name = "base"
      sp == IF isBase
            THEN [specials |-> Append(S.specials, special0), sid |-> Len(S.specials) + 1]
            ELSE copy_special(S.specials, S.case[par].special)
      cg == IF isBase THEN [lists |-> S.lists, d |-> <<>>]
            ELSE deepcopy(S.lists, S.case[par].act_get)
      cs == IF isBase THEN [lists |-> cg.lists, d |-> <<>>]
            ELSE deepcopy(cg.lists, S.case[par].act_set)
      me == [status |-> "init", parent |-> IF isBase THEN "" ELSE par, subs |-> <<>>,
             special |-> sp.sid, act_set |-> cs.d, act_get |-> cg.d]
      S1 == [S EXCEPT !.specials = sp.specials, !.lists = cs.lists, !.err = FALSE]
      S2 == IF isBase THEN [S1 EXCEPT !.case[name] = me]
            ELSE [S1 EXCEPT !.case[name] = me, !.case[par].subs = Append(@, name)]
  IN Bind(ReadItems(S2, name, items, 1),
          LAMBDA S3 : IF S3.err THEN [S3 EXCEPT !.case[name].status = "failed"]
                      ELSE [S3 EXCEPT !.case[name].status = "built",
                                      !.case[name].act_get = sorted_items(@),
                                      !.case[name].act_set = sorted_items(@)])

(* ------------------------------ spec inputs ---------------------------- *)
\* The spec items the cases of the tree are written with: settings at time 0
\* (whole variable and single elements), the get of an element, a periodic
\* get, the get of the final value, a new stop time, and a setting that the
\* legality rules forbid
IllegalItem == Item("g", RngNone, AtNum(1), Vals(<<1>>))
BuildPool ==
  {Item("g", RngNone, AtNone, Vals(<<1>>)),
   Item("g", RngNone, AtNum(0), Vals(<<2>>)),
   Item("x", RngList(<<0>>), AtNone, Vals(<<2>>)),
   Item("x", RngList(<<1>>), AtNum(0), Vals(<<1>>)),
   Item("x", RngList(<<0>>), AtNum(1), None),
   Item("stopTime", RngNone, AtNone, Vals(<<MaxTime - 1>>)),
   Item("h", RngNone, AtStepN(1), None),
   Item("h", RngNone, AtNone, None),
   IllegalItem}

\* Specs of two items, of which one fails the legality check
FailingSpecs ==
  {<<IllegalItem, Item("x", RngList(<<0>>), AtNum(1), None)>>,
   <<Item("x", RngList(<<0>>), AtNum(1), None), IllegalItem>>}
BuildSpecs == SeqsUpTo(BuildPool, MaxSpecLen) \cup FailingSpecs

\* The special dict of 'base': start and stop time as Cases.read_cases peeks
\* them from the spec, the step size as Case._ensure_specials finds it
BuildSpecials == [startTime : {0}, stopTime : {MaxTime}, stepSize : {1}]

EmptyState == [case |-> [c \in CaseNames |-> NoCase], lists |-> <<>>, specials |-> <<>>,
               message |-> NoMessage, err |-> FALSE]

(* ----------------------------- the variables --------------------------- *)
VARIABLES
  case,      \* the cases: status, parent, sub-cases, special dict, action tables
  lists,     \* the heap of action lists
  specials,  \* the heap of special dicts
  message,   \* SystemInterface.message
  last,      \* the last operation and its arguments
  edits      \* number of read_spec_item calls made after construction

buildvars == <<case, lists, specials, message, last, edits>>

VARIABLES
  pc,        \* position of Case.run: idle, set, step, get, save, done, raised, spin
  dump,      \* whether run was called with a dump that is not None
  time,      \* the clock of Case.run
  set_it,    \* (t_set, a_set) and the position of set_iter
  get_it,    \* (t_get, a_get) and the position of get_iter
  act_step,  \* the continuous get actions
  sim,       \* the values the simulator holds, per (component, ref)
  res,       \* the Results store of the run
  saved,     \* whether Results.save was called
  log,       \* the calls made to the simulator, in order
  resid,     \* the identity of the Results object Case.res refers to, 0 for None
  held       \* the Results objects of the earlier runs, which the caller kept:
             \* identity and content when the next run began

runvars == <<pc, dump, time, set_it, get_it, act_step, sim, res, saved, log, resid, held>>

VARIABLES
  data,      \* the series handed to eval_series: rows (time, value of the expression)
  temporal,  \* the temporal type of the assertion
  args,      \* the arguments of the temporal type: the time to interpolate at
  ret,       \* what eval_series returned
  store,     \* the Results store do_assert reads: per recorded time the value of
             \* the variable of the expression, or NoVal where it was not recorded
  asserted   \* what do_assert did: raised, or stored the verdict `passed`

evalvars == <<data, temporal, args, ret, store, asserted>>

VARIABLES
  query,     \* the arguments of a call of SystemInterface.allowed_action
  allowed    \* what the call did: raised, or returned `ok`

legalvars == <<query, allowed>>

VARIABLES
  rstore,    \* a Results store: the records in the order of the dict, each with
             \* its time and, per (component, variable), the value or NoVal
  request,   \* the comp_var argument of Results.retrieve
  table      \* what Results.retrieve returned

tablevars == <<rstore, request, table>>

VARIABLES
  regstarts  \* the start values registered with Cases.variables, per case variable

regvars == <<regstarts>>

VARIABLES
  txt,       \* a key of a case spec with its value, and the stop time of the case
  parsed     \* what _disect_at_time_spec and disect_variable made of the key

keyvars == <<txt, parsed>>

VARIABLES
  declared,    \* per case the '$.assert' dict of its spec: key, expression, temporal type
  series,      \* per case the series its Results object gives: rows (time, x)
  made,        \* the cases that have been constructed
  asserts,     \* Case.asserts: per case the list of its assertion keys
  exprs,       \* Assertion._expr: per key the expression, "" when there is none
  temporals,   \* Assertion._temporal: per key the temporal type, "" when there is none
  assertions,  \* Assertion._assertions: per key the verdict and the case it is of
  acted        \* the case of the last operation

assertvars == <<declared, series, made, asserts, exprs, temporals, assertions, acted>>
vars == <<case, lists, specials, message, last, edits,
          pc, dump, time, set_it, get_it, act_step, sim, res, saved, log, resid, held,
          data, temporal, args, ret, store, asserted, query, allowed,
          rstore, request, table, regstarts, txt, parsed,
          declared, series, made, asserts, exprs, temporals, assertions, acted>>

Infinity == 1000000
AllRefs == UNION {Range(variables[v].refs) : v \in CVars}

\* The simulator after init_simulator: every variable at its start value (0
\* for a variable without one)
SimStart ==
  [cr \in Comps \X AllRefs |->
     IF \E v \in CVars : cr[2] \in Range(variables[v].refs) /\ Len(variables[v].start) > 0
     THEN LET v == CHOOSE v \in CVars : cr[2] \in Range(variables[v].refs)
          IN variables[v].start[IndexOf(variables[v].refs, cr[2])]
     ELSE 0]

NoIter == [t |-> 0, a |-> <<>>, pos |-> 1]

\* No run has been started
RunIdle ==
  /\ pc = "idle" /\ dump = FALSE /\ time = 0
  /\ set_it = NoIter /\ get_it = NoIter /\ act_step = <<>>
  /\ sim = SimStart /\ res = <<>> /\ saved = FALSE /\ log = <<>>
  /\ resid = 0 /\ held = <<>>

NotCalled == [called |-> FALSE, raised |-> FALSE, t |-> 0, v |-> FALSE]

\* eval_series has not been called
NotAsserted == [called |-> FALSE, raised |-> FALSE, stored |-> FALSE, passed |-> FALSE]
EvalIdle ==
  /\ data = <<>> /\ temporal = "A" /\ args = <<>> /\ ret = NotCalled
  /\ store = <<>> /\ asserted = NotAsserted

\* allowed_action has not been called
NoQuery == [action |-> "get", infos |-> <<>>, time |-> 0]
NotChecked == [called |-> FALSE, raised |-> FALSE, ok |-> FALSE]
LegalIdle == query = NoQuery /\ allowed = NotChecked

\* Results.retrieve has not been called
NotRetrieved == [called |-> FALSE, rows |-> <<>>]
TableIdle == rstore = <<>> /\ request = <<>> /\ table = NotRetrieved

\* Cases.__init__ has registered the start values of the case variables
Registered == regstarts = get_starts

\* The cases and the keys of the assertions; one Assertion object serves all
\* cases
AssertCases == {"base", "c1"}
AssertKeys == {"1", "2"}
NoVerdict == [stored |-> FALSE, passed |-> FALSE, case |-> ""]
AssertIdle ==
  /\ declared = [c \in AssertCases |-> <<>>]
  /\ series = [c \in AssertCases |-> <<>>]
  /\ made = {}
  /\ asserts = [c \in AssertCases |-> <<>>]
  /\ exprs = [k \in AssertKeys |-> ""]
  /\ temporals = [k \in AssertKeys |-> ""]
  /\ assertions = [k \in AssertKeys |-> NoVerdict]
  /\ acted = ""

NotParsed == [called |-> FALSE, ok |-> FALSE, typ |-> "", arg |-> 0, rng |-> <<>>]
NoKey == [item |-> Item("", RngNone, AtNone, None), stopTime |-> 0]
KeyIdle == txt = NoKey /\ parsed = [at |-> NotParsed, var |-> NotParsed]

State == [case |-> case, lists |-> lists, specials |-> specials, message |-> message, err |-> FALSE]

NoOp == [op |-> "init", c |-> "base", par |-> "", items |-> <<>>, ok |-> TRUE]

\* Cases.__init__: the registry and the base case
InitBuild ==
  \E special0 \in BuildSpecials, items \in BuildSpecs :
    \E S \in {Construct(EmptyState, "base", "", items, special0)} :
    /\ ~S.err
    /\ case = S.case /\ lists = S.lists /\ specials = S.specials /\ message = S.message
    /\ last = [NoOp EXCEPT !.items = items]
    /\ edits = 0
    /\ RunIdle
    /\ EvalIdle
    /\ LegalIdle
    /\ TableIdle
    /\ Registered
    /\ KeyIdle
    /\ AssertIdle

\* Case(cases, name, spec) for a new case below an existing one; the cases are
\* made in the order c1, c2
NewCase(name, par, items) ==
  /\ case[name].status = "none"
  /\ \A i \in 1..MaxChildren :
       name = ChildNames[i] => \A j \in 1..(i - 1) : case[ChildNames[j]].status # "none"
  /\ case[par].status # "none"
  /\ \E S \in {Construct(State, name, par, items, <<>>)} :
     /\ case' = S.case /\ lists' = S.lists /\ specials' = S.specials /\ message' = S.message
     /\ last' = [op |-> "new", c |-> name, par |-> par, items |-> items, ok |-> ~S.err]
  /\ UNCHANGED <<assertvars, keyvars, regvars, tablevars, legalvars, edits, runvars, evalvars>>

\* case.read_spec_item(key, value) on an existing case
EditCase(c, item) ==
  /\ case[c].status = "built"
  /\ edits < MaxEdits
  /\ \E S \in {read_spec_item(State, c, item)} :
     /\ case' = S.case /\ lists' = S.lists /\ specials' = S.specials /\ message' = S.message
     /\ last' = [op |-> "edit", c |-> c, par |-> "", items |-> <<item>>, ok |-> ~S.err]
  /\ edits' = edits + 1
  /\ UNCHANGED <<assertvars, keyvars, regvars, tablevars, legalvars, runvars, evalvars>>

NextBuild ==
  \/ \E name \in CaseNames \ {"base"}, par \in CaseNames, items \in BuildSpecs : NewCase(name, par, items)
  \/ \E c \in CaseNames, item \in BuildPool : EditCase(c, item)

SpecBuild == InitBuild /\ [][NextBuild]_vars

(* ------------------------------- Case.run ------------------------------ *)
\* The order of the entries of Cases.variables
CVarOrder == <<"g", "x", "h">>

\* The key of a record of the Results store is str(time): the text of an int
\* (the start record, written under tstart) or of a float (time / timefac)
IntKey(n) == [int |-> TRUE, v |-> n]
FloatKey(n) == [int |-> FALSE, v |-> n]

\* Results.add: the values of (time, component, case variable), replacing what
\* was stored under the same three; a one-element tuple stands for the scalar
ResAdd(r, key, comp, cvar, values) ==
  IF \E i \in DOMAIN r : r[i].key = key /\ r[i].comp = comp /\ r[i].cvar = cvar
  THEN LET i == CHOOSE i \in DOMAIN r : r[i].key = key /\ r[i].comp = comp /\ r[i].cvar = cvar
       IN [r EXCEPT ![i].val = values]
  ELSE Append(r, [key |-> key, comp |-> comp, cvar |-> cvar, val |-> values])

\* The simulator's side of do_action: a set action stores its values, a get
\* action returns the stored ones
SimSet(sm, act) ==
  [cr \in DOMAIN sm |->
     IF cr[1] = act[2] /\ cr[2] \in Range(act[3]) THEN act[4][IndexOf(act[3], cr[2])] ELSE sm[cr]]
SimGet(sm, act) == [i \in DOMAIN act[3] |-> sm[<<act[2], act[3][i]>>]]

\* The loop `for _act in actions` of do_actions at clock tm for the slot of
\* time t; R is (sim, res, log)
RECURSIVE ExecActions(_, _, _, _, _)
ExecActions(R, acts, t, tm, i) ==
  IF i > Len(acts) THEN R
  ELSE LET act == acts[i]
           R1 == IF Len(act) = 3
                 THEN [R EXCEPT !.res = ResAdd(@, FloatKey(tm \div TimeFac), act[2], act[1],
                                               SimGet(R.sim, act)),
                                !.log = Append(@, [e |-> "get", t |-> t, at |-> tm, act |-> act])]
                 ELSE [R EXCEPT !.sim = SimSet(@, act),
                                !.log = Append(@, [e |-> "set", t |-> t, at |-> tm, act |-> act])]
       IN ExecActions(R1, acts, t, tm, i + 1)

\* next(_iter) of do_actions on table tab: the next slot, or (10 * tstop, [])
NextSlot(it, tab, tstop) ==
  IF it.pos <= Len(tab)
  THEN [t |-> tab[it.pos].t, a |-> lists[tab[it.pos].l], pos |-> it.pos + 1]
  ELSE [t |-> 10 * tstop, a |-> <<>>, pos |-> it.pos]

\* do_actions: (sim, res, log, it, spin); spin says that the while loop was
\* entered with an empty action list, which it never leaves
RECURSIVE do_actions(_, _, _, _, _)
do_actions(R, it, tab, tm, tstop) ==
  IF tm >= it.t
  THEN IF Len(it.a) > 0
       THEN do_actions(ExecActions(R, it.a, it.t, tm, 1), NextSlot(it, tab, tstop), tab, tm, tstop)
       ELSE [sim |-> R.sim, res |-> R.res, log |-> R.log, it |-> it, spin |-> TRUE]
  ELSE [sim |-> R.sim, res |-> R.res, log |-> R.log, it |-> it, spin |-> FALSE]

RunCase == "base"
RunSpecial == specials[case[RunCase].special]
tstart == RunSpecial.startTime * TimeFac
tstop == RunSpecial.stopTime * TimeFac
tstep == RunSpecial.stepSize * TimeFac
SetTable == case[RunCase].act_set
GetTable == case[RunCase].act_get

\* The number of leading slots of the get table with a negative time
RECURSIVE LeadingNegative(_, _)
LeadingNegative(tab, i) ==
  IF i <= Len(tab) /\ tab[i].t < 0 THEN LeadingNegative(tab, i + 1) ELSE i - 1

RECURSIVE Concat(_, _)
Concat(ss, i) == IF i > Len(ss) THEN <<>> ELSE ss[i] \o Concat(ss, i + 1)

\* The loop that folds the first slot of the set table into the start values:
\* (ok, starts)
RECURSIVE FoldStarts(_, _, _)
FoldStarts(st, a_set, i) ==
  IF ~st.ok \/ i > Len(a_set) THEN st
  ELSE LET cvar == a_set[i][1]
           allrefs == variables[cvar].refs
       IN IF cvar \notin DOMAIN st.starts THEN [st EXCEPT !.ok = FALSE]
          ELSE LET u == update_refs_values(allrefs, allrefs, st.starts[cvar], a_set[i][3], a_set[i][4])
               IN IF u.ok
                  THEN FoldStarts([st EXCEPT !.starts[cvar] = u.vals], a_set, i + 1)
                  ELSE [st EXCEPT !.ok = FALSE]

\* The loops that report the start values: for every variable with a start
\* value, one record per instance of the case variable named by cvar
RECURSIVE ReportInstances(_, _, _, _, _, _)
ReportInstances(r, key, insts, v, s, i) ==
  IF i > Len(insts) THEN r
  ELSE ReportInstances(ResAdd(r, key, insts[i], v, s), key, insts, v, s, i + 1)
RECURSIVE ReportStarts(_, _, _, _, _)
ReportStarts(r, key, starts, cvar, i) ==
  IF i > Len(CVarOrder) THEN r
  ELSE LET v == CVarOrder[i] IN
       IF v \in DOMAIN starts
       THEN ReportStarts(ReportInstances(r, key, variables[cvar].instances, v, starts[v], 1),
                         key, starts, cvar, i + 1)
       ELSE ReportStarts(r, key, starts, cvar, i + 1)

\* Cases.get_starts that hands out the dict of the registry itself: what the
\* caller assigns to it is registered
get_starts_no_copy(reg) == [starts |-> reg, alias |-> TRUE]

\* Cases.get_starts: a new dict with copies of the start values of the case
\* variables that have any
Cases_get_starts(reg) == [starts |-> reg, alias |-> FALSE]

\* Case.add_results_object(Results(self)) with no new object made: the case
\* keeps the Results object it has and the records in it
Results_reused(cur) == IF cur.id = 0 THEN [id |-> 1, res |-> <<>>] ELSE cur

\* Case.add_results_object(Results(self)): a new Results object without
\* records; cur is the object the case referred to so far
Results_init_new(cur) == [id |-> cur.id + 1, res |-> <<>>]

\* Case.run up to the main loop; a case that has been run can be run again
RunBegin(d) ==
  /\ pc = "idle" \/ (pc = "done" /\ Len(held) + 1 < MaxRuns)
  /\ held' = IF pc = "done" THEN Append(held, [id |-> resid, snap |-> res]) ELSE held
  /\ LET first == IF Len(SetTable) > 0
                  THEN [t |-> SetTable[1].t, a |-> lists[SetTable[1].l], pos |-> 2]
                  ELSE [t |-> Infinity, a |-> <<>>, pos |-> 1]
         k == LeadingNegative(GetTable, 1)
         g == IF k < Len(GetTable)
              THEN [t |-> GetTable[k + 1].t, a |-> lists[GetTable[k + 1].l], pos |-> k + 2]
              ELSE [t |-> tstop + 1, a |-> <<>>, pos |-> k + 1]
         gs == Cases_get_starts(regstarts)
         st == FoldStarts([ok |-> TRUE, starts |-> gs.starts], first.a, 1)
         unbound == Len(first.a) = 0 /\ DOMAIN gs.starts # {}
         new == Results_init_new([id |-> resid, res |-> res])
     IN /\ dump' = d
        /\ regstarts' = IF gs.alias THEN st.starts ELSE regstarts
        /\ resid' = new.id
        /\ time' = tstart
        /\ set_it' = first
        /\ get_it' = g
        /\ act_step' = Concat([i \in 1..k |-> lists[GetTable[i].l]], 1)
        /\ sim' = SimStart
        /\ saved' = FALSE
        /\ log' = <<>>
        /\ IF ~st.ok \/ unbound
           THEN pc' = "raised" /\ res' = new.res
           ELSE /\ pc' = "set"
                /\ res' = ReportStarts(new.res, IntKey(tstart), st.starts,
                                       first.a[Len(first.a)][1], 1)
  /\ UNCHANGED <<assertvars, keyvars, tablevars, legalvars, buildvars, evalvars>>

\* The head of the main loop: the set actions that are due, then the clock
LoopSet ==
  /\ pc = "set"
  /\ \E R \in {do_actions([sim |-> sim, res |-> res, log |-> log], set_it, SetTable, time, tstop)} :
        /\ sim' = R.sim /\ res' = R.res /\ log' = R.log /\ set_it' = R.it
        /\ IF R.spin THEN pc' = "spin" /\ time' = time
           ELSE /\ time' = time + tstep
                /\ pc' = IF time + tstep > tstop THEN "save" ELSE "step"
  /\ UNCHANGED <<assertvars, keyvars, regvars, tablevars, legalvars, buildvars, evalvars, dump, get_it, act_step, saved, resid, held>>

\* run_until(time) with an answer that is not looked at
RunUntilGoOn(ok) ==
  /\ pc = "step"
  /\ log' = Append(log, [e |-> "run", t |-> time, at |-> time, act |-> <<ok>>])
  /\ pc' = "get"
  /\ UNCHANGED <<assertvars, keyvars, regvars, tablevars, legalvars, buildvars, evalvars, dump, time, set_it, get_it, act_step, sim, res, saved, resid, held>>

\* run_until(time) and its answer
RunUntil(ok) ==
  /\ pc = "step"
  /\ log' = Append(log, [e |-> "run", t |-> time, at |-> time, act |-> <<ok>>])
  /\ pc' = IF ok THEN "get" ELSE "save"
  /\ UNCHANGED <<assertvars, keyvars, regvars, tablevars, legalvars, buildvars, evalvars, dump, time, set_it, get_it, act_step, sim, res, saved, resid, held>>

\* The continuous get actions after a step
RECURSIVE StepActions(_, _, _, _)
StepActions(R, acts, tm, i) ==
  IF i > Len(acts) THEN R
  ELSE StepActions([R EXCEPT !.res = ResAdd(@, FloatKey(tm \div TimeFac), acts[i][2], acts[i][1],
                                            SimGet(R.sim, acts[i])),
                             !.log = Append(@, [e |-> "cont", t |-> -1, at |-> tm, act |-> acts[i]])],
                   acts, tm, i + 1)

\* The rest of the loop body: the get actions that are due, then the
\* continuous ones
LoopGet ==
  /\ pc = "get"
  /\ \E R \in {do_actions([sim |-> sim, res |-> res, log |-> log], get_it, GetTable, time, tstop)} :
     \E R2 \in {StepActions([sim |-> R.sim, res |-> R.res, log |-> R.log], act_step, time, 1)} :
        /\ get_it' = R.it
        /\ IF R.spin
           THEN pc' = "spin" /\ sim' = R.sim /\ res' = R.res /\ log' = R.log
           ELSE pc' = "set" /\ sim' = R2.sim /\ res' = R2.res /\ log' = R2.log
  /\ UNCHANGED <<assertvars, keyvars, regvars, tablevars, legalvars, buildvars, evalvars, dump, time, set_it, act_step, saved, resid, held>>

\* After the loop: the results are saved unless dump is None
Save ==
  /\ pc = "save"
  /\ saved' = dump
  /\ pc' = "done"
  /\ UNCHANGED <<assertvars, keyvars, regvars, tablevars, legalvars, buildvars, evalvars, dump, time, set_it, get_it, act_step, sim, res, log, resid, held>>

(* --------------------------- Results.inspect --------------------------- *)
\* float(key) for a key of the store
KeyTime(key) == key.v

\* The keys of the store under which (comp, cvar) is recorded, in the order of
\* the dict: a key takes its place when its first record is added
RECURSIVE KeysOf(_, _, _, _)
KeysOf(r, comp, cvar, i) ==
  IF i > Len(r) THEN <<>>
  ELSE (IF r[i].comp = comp /\ r[i].cvar = cvar THEN <<[pos |-> i, key |-> r[i].key]>> ELSE <<>>)
       \o KeysOf(r, comp, cvar, i + 1)
FirstOfKey(r, key) == CHOOSE i \in DOMAIN r : r[i].key = key /\ \A j \in 1..(i - 1) : r[j].key # key
RECURSIVE InDictOrder(_, _)
InDictOrder(r, ks) ==
  IF Len(ks) <= 1 THEN ks
  ELSE LET m == CHOOSE a \in DOMAIN ks :
                  \A b \in DOMAIN ks : FirstOfKey(r, ks[a].key) <= FirstOfKey(r, ks[b].key)
       IN <<ks[m]>> \o InDictOrder(r, [a \in 1..(Len(ks) - 1) |-> IF a < m THEN ks[a] ELSE ks[a + 1]])

\* The loop of inspect over the keys that hold ident: the first one makes the
\* entry, every later one counts and moves the upper end of the range
RECURSIVE inspect_loop(_, _, _)
inspect_loop(ks, i, entry) ==
  IF i > Len(ks) THEN entry
  ELSE inspect_loop(ks, i + 1,
                    IF i = 1 THEN [len |-> 1, range |-> <<KeyTime(ks[i].key), KeyTime(ks[i].key)>>]
                    ELSE [len |-> entry.len + 1, range |-> <<entry.range[1], KeyTime(ks[i].key)>>])

\* Results.inspect()[comp.cvar] for an ident the store holds
inspect(r, comp, cvar) ==
  inspect_loop(InDictOrder(r, KeysOf(r, comp, cvar, 1)), 1, [len |-> 0, range |-> <<0, 0>>])

(* ------------------------- the cases that are run ---------------------- *)
RunPool ==
  {Item("g", RngNone, AtNone, Vals(<<1>>)),
   Item("h", RngNone, AtNone, None),
   Item("h", RngNone, AtStep, None),
   Item("h", RngNone, AtStepN(1), None)}
  \cup {Item("x", RngList(<<0>>), AtNum(t), Vals(<<2>>)) : t \in 1..(MaxTime - 1)}
  \cup {Item("x", RngNone, AtNum(t), None) : t \in 1..(MaxTime - 1)}

RunSpecs == SeqsUpTo(RunPool, MaxRunSpecLen)
RunSpecials == [startTime : {0, 1}, stopTime : 0..MaxTime, stepSize : {1, 2}]

\* The case that is run, and a case below it that is not
InitRun ==
  \E special0 \in RunSpecials, items \in RunSpecs :
    \E S0 \in {Construct(EmptyState, "base", "", items, special0)} :
    \E S \in {IF S0.err THEN S0 ELSE Construct(S0, "c1", "base", <<>>, <<>>)} :
    /\ ~S.err
    /\ case = S.case /\ lists = S.lists /\ specials = S.specials /\ message = S.message
    /\ last = [NoOp EXCEPT !.items = items]
    /\ edits = 0
    /\ RunIdle
    /\ EvalIdle
    /\ LegalIdle
    /\ TableIdle
    /\ Registered
    /\ KeyIdle
    /\ AssertIdle

NextRun ==
  \/ \E d \in BOOLEAN : RunBegin(d)
  \/ LoopSet
  \/ \E ok \in BOOLEAN : RunUntil(ok)
  \/ LoopGet
  \/ Save

SpecRun == InitRun /\ [][NextRun]_vars

(* ------------------------- Assertion.eval_series ----------------------- *)
\* A row of the series: the time and the value of the expression at it
SampleTimes == 0..(MaxRows - 1)
Rows == [t : SampleTimes, x : 0..1]
Series == SeqsUpTo(Rows, MaxRows)

\* bool(res) of the loop over the rows
Truth(row) == row.x # 0

\* Temporal.A answering with the last row that is true
always_last_true(d) ==
  IF \E i \in DOMAIN d : Truth(d[i])
  THEN LET i == CHOOSE i \in DOMAIN d : Truth(d[i]) /\ \A j \in (i + 1)..Len(d) : ~Truth(d[j])
       IN [called |-> TRUE, raised |-> FALSE, t |-> d[i].t, v |-> TRUE]
  ELSE IF Len(d) = 0
       THEN [called |-> TRUE, raised |-> TRUE, t |-> 0, v |-> FALSE]
       ELSE [called |-> TRUE, raised |-> FALSE, t |-> d[Len(d)].t, v |-> FALSE]

\* The branch for Temporal.A: the first row that is true, else the last row
always_true(d) ==
  IF \E i \in DOMAIN d : Truth(d[i])
  THEN LET i == CHOOSE i \in DOMAIN d : Truth(d[i]) /\ \A j \in 1..(i - 1) : ~Truth(d[j])
       IN [called |-> TRUE, raised |-> FALSE, t |-> d[i].t, v |-> TRUE]
  ELSE IF Len(d) = 0
       THEN [called |-> TRUE, raised |-> TRUE, t |-> 0, v |-> FALSE]
       ELSE [called |-> TRUE, raised |-> FALSE, t |-> d[Len(d)].t, v |-> FALSE]

\* The loop over t_true without the reset at a row that is false
RECURSIVE finally_loop_no_reset(_, _, _)
finally_loop_no_reset(d, t_true, i) ==
  IF i > Len(d) THEN t_true
  ELSE IF Truth(d[i]) /\ t_true > d[i].t THEN finally_loop_no_reset(d, d[i].t, i + 1)
  ELSE finally_loop_no_reset(d, t_true, i + 1)

\* The loop of the branch for Temporal.F over t_true
RECURSIVE finally_loop(_, _, _)
finally_loop(d, t_true, i) ==
  IF i > Len(d) THEN t_true
  ELSE IF Truth(d[i]) /\ t_true > d[i].t THEN finally_loop(d, d[i].t, i + 1)
  ELSE IF ~Truth(d[i]) /\ t_true < d[i].t THEN finally_loop(d, d[Len(d)].t, i + 1)
  ELSE finally_loop(d, t_true, i + 1)

\* The branch for Temporal.F
finally_true(d) ==
  IF Len(d) = 0
  THEN [called |-> TRUE, raised |-> TRUE, t |-> 0, v |-> FALSE]
  ELSE LET t_true == finally_loop(d, d[Len(d)].t, 1)
       IN [called |-> TRUE, raised |-> FALSE, t |-> t_true, v |-> t_true < d[Len(d)].t]

eval_series(d, typ) == IF typ = "A" THEN always_true(d) ELSE finally_true(d)

\* The records of a Results store as far as one (component, variable) goes:
\* the time and the recorded value, NoVal when the record lacks the variable
Recs == [t : 0..(MaxRecs - 1), x : {NoVal, 0, 1}]
Stores == SeqsUpTo(Recs, MaxRecs)

\* Results.retrieve for that (component, variable): a row (time, value) for
\* every record that holds the variable, in the order of the records
RECURSIVE retrieve(_, _)
retrieve(st, i) ==
  IF i > Len(st) THEN <<>>
  ELSE (IF st[i].x # NoVal THEN <<[t |-> st[i].t, x |-> st[i].x]>> ELSE <<>>) \o retrieve(st, i + 1)

\* Either a series for a call of eval_series, or a store for do_assert
InitEval ==
  /\ case = EmptyState.case /\ lists = EmptyState.lists
  /\ specials = EmptyState.specials /\ message = EmptyState.message
  /\ last = NoOp /\ edits = 0
  /\ RunIdle
  /\ LegalIdle
  /\ TableIdle
  /\ Registered
  /\ KeyIdle
  /\ AssertIdle
  /\ \/ data \in Series /\ store = <<>>
     \/ data = <<>> /\ store \in Stores
  /\ temporal \in {"A", "F"}
  /\ args = <<>>
  /\ ret = NotCalled
  /\ asserted = NotAsserted

EvalSeries ==
  /\ ~ret.called
  /\ ret' = eval_series(data, temporal)
  /\ UNCHANGED <<assertvars, keyvars, regvars, tablevars, legalvars, buildvars, runvars, data, temporal, args, store, asserted>>

\* Assertion.do_assert: the series is retrieved from the store and evaluated,
\* and the verdict is stored with Assertion.assertions; an exception of
\* eval_series leaves do_assert before that
do_assert ==
  /\ ~asserted.called
  /\ \E d \in {retrieve(store, 1)} :
     \E r \in {eval_series(d, temporal)} :
       /\ data' = d
       /\ ret' = r
       /\ asserted' = [called |-> TRUE, raised |-> r.raised,
                       stored |-> ~r.raised, passed |-> ~r.raised /\ r.v]
  /\ UNCHANGED <<assertvars, keyvars, regvars, tablevars, legalvars, buildvars, runvars, temporal, args, store>>

NextEval == EvalSeries \/ do_assert

SpecEval == InitEval /\ [][NextEval]_vars

(* ---------------- Assertion.eval_series, Temporal.T ------------------- *)
\* The values of an expression: a bool, or a number
PyBool(b) == [bool |-> TRUE, n |-> IF b THEN 1 ELSE 0]
PyNum(n) == [bool |-> FALSE, n |-> n]
TimeVals == {PyBool(b) : b \in BOOLEAN} \cup {PyNum(n) : n \in 0..MaxVal}
TimeRows == [t : 0..MaxStamp, x : TimeVals]

\* The series of a Results store: the times increase
TimeSeries ==
  {d \in SeqsUpTo(TimeRows, MaxSamples) : \A i \in 1..(Len(d) - 1) : d[i].t < d[i + 1].t}

\* A float as a fraction, a bool as it is
Float(num, den) == [bool |-> FALSE, num |-> num, den |-> den]
Bool(b) == [bool |-> TRUE, num |-> IF b THEN 1 ELSE 0, den |-> 1]

\* np.interp that answers with the sample to the left of x
interp_left_sample(x, d) ==
  LET n == Len(d)
  IN IF x > d[n].t THEN Float(d[n].x.n, 1)
     ELSE IF x < d[1].t THEN Float(d[1].x.n, 1)
     ELSE LET j == CHOOSE j \in 1..n : d[j].t <= x /\ \A k \in (j + 1)..n : d[k].t > x
          IN Float(d[j].x.n, 1)

\* np.interp(x, times, results) for increasing times: the value of the last
\* sample beyond it, of the first sample before it, of the sample at x, and
\* between two samples slope * (x - xp[j]) + fp[j]
interp(x, d) ==
  LET n == Len(d)
  IN IF x > d[n].t THEN Float(d[n].x.n, 1)
     ELSE IF x < d[1].t THEN Float(d[1].x.n, 1)
     ELSE LET j == CHOOSE j \in 1..n : d[j].t <= x /\ \A k \in (j + 1)..n : d[k].t > x
          IN IF j = n \/ d[j].t = x THEN Float(d[j].x.n, 1)
             ELSE Float((d[j + 1].x.n - d[j].x.n) * (x - d[j].t)
                          + d[j].x.n * (d[j + 1].t - d[j].t),
                        d[j + 1].t - d[j].t)

\* The branch for Temporal.T: the time to interpolate at is the first argument
\* of the temporal type; np.interp raises for an empty series
time_value(d, targs) ==
  IF Len(targs) = 0 \/ Len(d) = 0
  THEN [called |-> TRUE, raised |-> TRUE, t |-> 0, v |-> Bool(FALSE)]
  ELSE LET interpolated == interp(targs[1], d)
       IN [called |-> TRUE, raised |-> FALSE, t |-> targs[1],
           v |-> IF \A i \in DOMAIN d : d[i].x.bool
                 THEN Bool(interpolated.num # 0)
                 ELSE interpolated]

InitTime ==
  /\ case = EmptyState.case /\ lists = EmptyState.lists
  /\ specials = EmptyState.specials /\ message = EmptyState.message
  /\ last = NoOp /\ edits = 0
  /\ RunIdle
  /\ LegalIdle
  /\ TableIdle
  /\ Registered
  /\ KeyIdle
  /\ AssertIdle
  /\ data \in TimeSeries
  /\ temporal = "T"
  /\ args \in {<<>>} \cup {<<t0>> : t0 \in 0..MaxStamp}
  /\ ret = NotCalled
  /\ store = <<>>
  /\ asserted = NotAsserted

\* eval_series(key, data, ret=None) of an assertion of type Temporal.T
EvalSeriesTime ==
  /\ ~ret.called
  /\ temporal = "T"
  /\ ret' = time_value(data, args)
  /\ UNCHANGED <<assertvars, keyvars, regvars, tablevars, legalvars, buildvars, runvars, data, temporal, args, store, asserted>>

NextTime == EvalSeriesTime

SpecTime == InitTime /\ [][NextTime]_vars

(* ---------------------- the assertions of the cases ------------------- *)
\* The expressions: the variable itself, and its complement
Exprs == {"x", "1 - x"}
AssertItems == [key : AssertKeys, expr : Exprs, typ : {"A", "F"}]

\* The '$.assert' dicts: the keys of a dict are distinct
AssertSpecs ==
  {d \in SeqsUpTo(AssertItems, MaxAsserts) : \A i, j \in DOMAIN d : i # j => d[i].key # d[j].key}

\* The series a Results object gives for x
AssertSeries ==
  {<<[t |-> 0, x |-> 1], [t |-> 1, x |-> 1]>>, <<[t |-> 0, x |-> 1], [t |-> 1, x |-> 0]>>}

\* The rows of the values of the expression
ExprRows(ex, d) == [i \in DOMAIN d |-> [t |-> d[i].t, x |-> IF ex = "x" THEN d[i].x ELSE 1 - d[i].x]]

\* The loop of Case.__init__ over the '$.assert' dict with Case.read_assertion:
\* Assertion.expr and Assertion.temporal store under the key, the key is
\* appended to Case.asserts unless it is there
RECURSIVE read_assertion(_, _, _, _)
read_assertion(R, c, dict, i) ==
  IF i > Len(dict) THEN R
  ELSE read_assertion(
         [R EXCEPT !.exprs[dict[i].key] = dict[i].expr,
                   !.temporals[dict[i].key] = dict[i].typ,
                   !.asserts[c] = IF dict[i].key \in Range(@) THEN @ ELSE Append(@, dict[i].key)],
         c, dict, i + 1)

\* The loop of Assertion.do_assert_case over the keys of the case: do_assert
\* evaluates the expression stored under the key on the results of the case
\* and stores the verdict and the name of the case under the key
RECURSIVE do_assert_case(_, _, _, _, _, _)
do_assert_case(A, keys, ex, tm, c, d) ==
  IF Len(keys) = 0 THEN A
  ELSE LET k == keys[1]
           verdict == eval_series(ExprRows(ex[k], d), tm[k])
       IN do_assert_case([A EXCEPT ![k] = [stored |-> TRUE, passed |-> verdict.v, case |-> c]],
                         Tail(keys), ex, tm, c, d)

\* Assertion.report(case): what is reported for the keys of the case
report(c) ==
  [i \in DOMAIN asserts[c] |->
     [key |-> asserts[c][i], expression |-> exprs[asserts[c][i]],
      temporal |-> temporals[asserts[c][i]],
      result |-> assertions[asserts[c][i]].passed, case |-> assertions[asserts[c][i]].case]]

InitAssert ==
  /\ case = EmptyState.case /\ lists = EmptyState.lists
  /\ specials = EmptyState.specials /\ message = EmptyState.message
  /\ last = NoOp /\ edits = 0
  /\ RunIdle
  /\ EvalIdle
  /\ LegalIdle
  /\ TableIdle
  /\ Registered
  /\ KeyIdle
  /\ declared \in [AssertCases -> AssertSpecs]
  /\ series \in [AssertCases -> AssertSeries]
  /\ made = {}
  /\ asserts = [c \in AssertCases |-> <<>>]
  /\ exprs = [k \in AssertKeys |-> ""]
  /\ temporals = [k \in AssertKeys |-> ""]
  /\ assertions = [k \in AssertKeys |-> NoVerdict]
  /\ acted = ""

\* Case.__init__ as far as the assertions go; Cases.read_cases makes the base
\* case first
ReadAssertions(c) ==
  /\ c \notin made
  /\ c = "base" \/ "base" \in made
  /\ \E R \in {read_assertion([exprs |-> exprs, temporals |-> temporals, asserts |-> asserts],
                                c, declared[c], 1)} :
       /\ exprs' = R.exprs /\ temporals' = R.temporals /\ asserts' = R.asserts
  /\ made' = made \cup {c}
  /\ acted' = c
  /\ UNCHANGED <<keyvars, regvars, tablevars, legalvars, buildvars, runvars, evalvars,
                 declared, series, assertions>>

\* Cases.run_case as far as the assertions go, once all cases are made
DoAssertCase(c) ==
  /\ made = AssertCases
  /\ assertions' = do_assert_case(assertions, asserts[c], exprs, temporals, c, series[c])
  /\ acted' = c
  /\ UNCHANGED <<keyvars, regvars, tablevars, legalvars, buildvars, runvars, evalvars,
                 declared, series, made, asserts, exprs, temporals>>

NextAssert ==
  \/ \E c \in AssertCases : ReadAssertions(c)
  \/ \E c \in AssertCases : DoAssertCase(c)

SpecAssert == InitAssert /\ [][NextAssert]_vars

(* ------------------------- the keys of a case spec --------------------- *)
\* The names before the bracket: none, the aliases, a name that is no alias
KeyNames == {""} \cup CVars \cup {"q"}

\* The texts after '@' and the values of a key
KeyAts ==
  {AtNone, AtEmpty, AtStep, AtStepText, AtBad}
    \cup {AtNum(t) : t \in 0..MaxTime} \cup {AtStepN(d) : d \in 1..MaxTime}
KeyValues == {None, ResMarker, Vals(<<>>), Vals(<<1>>), Vals(<<1, 2>>)}

\* The texts in brackets
KeyBounds == {<<>>} \cup {<<i>> : i \in (-1)..MaxIndex}
KeyParts ==
  {NoInt} \cup {Index(i) : i \in (-1)..MaxIndex}
    \cup {Ellipsis(a, b) : a \in KeyBounds, b \in KeyBounds}
KeyRanges ==
  {RngNone} \cup {RngParts(ps) : ps \in SeqsUpTo(KeyParts, MaxParts) \ {<<>>}}
    \cup {RngList(<<0, 2, 1>>), RngList(<<2, 0, 2>>)}

\* A key with its time part varied, or with its brackets varied
Keys ==
  [item : {Item(n, RngNone, at, v) : n \in {"", "x"}, at \in KeyAts, v \in KeyValues},
   stopTime : 1..MaxTime]
  \cup
  [item : {Item(n, r, AtNone, None) : n \in KeyNames \ {""}, r \in KeyRanges},
   stopTime : {MaxTime}]

InitKey ==
  /\ case = EmptyState.case /\ lists = EmptyState.lists
  /\ specials = EmptyState.specials /\ message = EmptyState.message
  /\ last = NoOp /\ edits = 0
  /\ RunIdle
  /\ EvalIdle
  /\ LegalIdle
  /\ TableIdle
  /\ Registered
  /\ txt \in Keys
  /\ AssertIdle
  /\ parsed = [at |-> NotParsed, var |-> NotParsed]

\* One call of Case._disect_at_time_spec(key, value); the text before '@' is
\* empty when there is neither a name nor a bracket
DisectAtTimeSpec ==
  /\ ~parsed.at.called
  /\ \E a \in {disect_at_time_spec(txt.item.var, txt.item.at, txt.item.val, txt.stopTime)} :
       parsed' = [parsed EXCEPT !.at = [called |-> TRUE, ok |-> a.ok, typ |-> a.typ,
                                        arg |-> a.arg, rng |-> <<>>]]
  /\ UNCHANGED <<assertvars, regvars, tablevars, legalvars, buildvars, runvars, evalvars, txt>>

\* One call of Cases.disect_variable(key) with the text before '@'
DisectVariable ==
  /\ ~parsed.var.called
  /\ \E dv \in {disect_variable(txt.item.var, txt.item.rng)} :
       parsed' = [parsed EXCEPT !.var = [called |-> TRUE, ok |-> dv.ok, typ |-> "",
                                         arg |-> 0, rng |-> dv.rng]]
  /\ UNCHANGED <<assertvars, regvars, tablevars, legalvars, buildvars, runvars, evalvars, txt>>

NextKey == DisectAtTimeSpec \/ DisectVariable

SpecKey == InitKey /\ [][NextKey]_vars

(* -------------------- SystemInterface.allowed_action ------------------- *)
Types == {"float", "int"}
Causalities == {"parameter", "calculated_parameter", "input", "output", "local", "independent"}
Variabilities == {"constant", "fixed", "tunable", "discrete", "continuous"}
Initials == {"", "exact", "approx", "calculated"}
Infos == [type : Types, causality : Causalities, variability : Variabilities, initial : Initials]

\* The further variables of a tuple: as the first one, or different from it in
\* the type, the causality or the variability
Variants(info) ==
  {info, [info EXCEPT !.type = "int"], [info EXCEPT !.causality = "local"],
   [info EXCEPT !.variability = "discrete"]}

\* The tuples of up to MaxVars variables; the empty tuple included
InfoTuples ==
  {<<>>} \cup UNION {{<<info>> \o rest : rest \in SeqsUpTo(Variants(info), MaxVars - 1)} : info \in Infos}

\* The names of the variables of a query
QueryNames(q) == [i \in DOMAIN q.infos |-> <<"v", i - 1>>]

Queries == [action : {"set", "get", "Set"}, infos : InfoTuples, time : (-1)..MaxTime]

InitAllowed ==
  /\ case = EmptyState.case /\ lists = EmptyState.lists
  /\ specials = EmptyState.specials /\ message = EmptyState.message
  /\ last = NoOp /\ edits = 0
  /\ RunIdle
  /\ EvalIdle
  /\ query \in Queries
  /\ allowed = NotChecked
  /\ TableIdle
  /\ Registered
  /\ KeyIdle
  /\ AssertIdle

\* One call of allowed_action; a failed check sets SystemInterface.message
AllowedAction ==
  /\ ~allowed.called
  /\ \E al \in {allowed_action(query.action, query.infos, QueryNames(query), query.time)} :
       /\ allowed' = [called |-> TRUE, raised |-> al.raised, ok |-> al.ok]
       /\ message' = IF al.raised \/ al.ok THEN message ELSE al.msg
  /\ UNCHANGED <<assertvars, keyvars, regvars, tablevars, case, lists, specials, last, edits, runvars, evalvars, query>>

NextAllowed == AllowedAction

SpecAllowed == InitAllowed /\ [][NextAllowed]_vars

(* --------------------------- Results.retrieve -------------------------- *)
\* The (component, variable) pairs of the records
Fields == {<<"bb", "h">>, <<"bb", "g">>}

\* The stores of up to MaxRecs records: the keys of the dict are distinct
StoreRecs == [t : 0..(MaxRecs - 1), f : [Fields -> {NoVal, 0, 1}]]
RStores ==
  {st \in SeqsUpTo(StoreRecs, MaxRecs) : \A i, j \in DOMAIN st : i # j => st[i].t # st[j].t}
Requests == SeqsUpTo(Fields, 2)

\* The loop over _comp_var for one record: the values found so far, given up
\* at the first field the record lacks, which only the first field decides
RECURSIVE complete_record_first_only(_, _, _, _)
complete_record_first_only(rec, comp_var, i, record) ==
  IF i > Len(comp_var) THEN [is_complete |-> TRUE, record |-> record]
  ELSE IF i = 1 /\ rec.f[comp_var[i]] = NoVal THEN [is_complete |-> FALSE, record |-> record]
  ELSE complete_record_first_only(rec, comp_var, i + 1, Append(record, rec.f[comp_var[i]]))

\* The loop over _comp_var for one record: the values found so far, given up
\* at the first field the record lacks
RECURSIVE complete_record(_, _, _, _)
complete_record(rec, comp_var, i, record) ==
  IF i > Len(comp_var) THEN [is_complete |-> TRUE, record |-> record]
  ELSE IF rec.f[comp_var[i]] = NoVal THEN [is_complete |-> FALSE, record |-> record]
  ELSE complete_record(rec, comp_var, i + 1, Append(record, rec.f[comp_var[i]]))

\* Results.retrieve: per record of the store, in its order, the row (time,
\* values) if the record is complete
RECURSIVE retrieve_rows(_, _, _)
retrieve_rows(st, comp_var, i) ==
  IF i > Len(st) THEN <<>>
  ELSE LET r == complete_record(st[i], comp_var, 1, <<>>)
       IN (IF r.is_complete THEN <<[t |-> st[i].t, v |-> r.record]>> ELSE <<>>)
          \o retrieve_rows(st, comp_var, i + 1)

InitRetrieve ==
  /\ case = EmptyState.case /\ lists = EmptyState.lists
  /\ specials = EmptyState.specials /\ message = EmptyState.message
  /\ last = NoOp /\ edits = 0
  /\ RunIdle
  /\ EvalIdle
  /\ LegalIdle
  /\ rstore \in RStores
  /\ request \in Requests
  /\ table = NotRetrieved
  /\ Registered
  /\ KeyIdle
  /\ AssertIdle

Retrieve ==
  /\ ~table.called
  /\ table' = [called |-> TRUE, rows |-> retrieve_rows(rstore, request, 1)]
  /\ UNCHANGED <<assertvars, keyvars, regvars, buildvars, runvars, evalvars, legalvars, rstore, request>>

NextRetrieve == Retrieve

SpecRetrieve == InitRetrieve /\ [][NextRetrieve]_vars

(* ------------------- properties of the case tree (C6-C9) --------------- *)
\* What case c sees in the state (cs, ls, sps): its special values and the
\* content of its two tables
VisibleIn(cs, ls, sps, c) ==
  [special |-> sps[cs[c].special],
   act_set |-> [i \in DOMAIN cs[c].act_set |->
                  [t |-> cs[c].act_set[i].t, acts |-> ls[cs[c].act_set[i].l]]],
   act_get |-> [i \in DOMAIN cs[c].act_get |->
                  [t |-> cs[c].act_get[i].t, acts |-> ls[cs[c].act_get[i].l]]]]
Visible(c) == VisibleIn(case, lists, specials, c)
VisibleNext(c) == VisibleIn(case', lists', specials', c)

\* The action list of a table at time t, empty when the table has no such slot
ActsAt(tab, t) ==
  IF \E i \in DOMAIN tab : tab[i].t = t
  THEN (CHOOSE sl \in Range(tab) : sl.t = t).acts
  ELSE <<>>

Existing == {c \in CaseNames : case[c].status # "none"}

\* How a spec item that sets values reads: the slot time and the refs it names
IsSetAt(it, t) ==
  /\ it.var \in CVars
  /\ LET a == disect_at_time_spec(it.var, it.at, it.val, 0)
     IN a.ok /\ a.typ = "set" /\ (IF a.arg <= 0 THEN a.arg ELSE a.arg * TimeFac) = t
ItemRefs(it) ==
  LET dv == disect_variable(it.var, it.rng)
  IN [i \in DOMAIN dv.rng |-> variables[it.var].refs[dv.rng[i] + 1]]
\* The value the item gives to ref r (the last one, if the key repeats r)
ItemValue(it, r) ==
  LET refs == ItemRefs(it)
      i == CHOOSE i \in DOMAIN refs : refs[i] = r /\ \A j \in DOMAIN refs : j > i => refs[j] # r
  IN it.val.v[i]
ValueOf(act, r) == act[4][IndexOf(act[3], r)]

\* new is the action old merged with the set item it: the refs are the union,
\* without repetition, and each ref carries the item's value if the item names
\* it and the old value otherwise
Merged(old, new, it) ==
  /\ new[1] = old[1] /\ new[2] = old[2]
  /\ Len(new[3]) = Len(new[4])
  /\ Range(new[3]) = Range(old[3]) \cup Range(ItemRefs(it))
  /\ Cardinality(Range(new[3])) = Len(new[3])
  /\ \A k \in DOMAIN new[3] :
       new[4][k] = IF new[3][k] \in Range(ItemRefs(it))
                   THEN ItemValue(it, new[3][k])
                   ELSE ValueOf(old, new[3][k])

\* C6: a set item registered by read_spec_item on a case whose table already
\* holds a set action for the same time, case variable and component leaves
\* exactly one action for that key, and that action is the old one merged
\* with the item: union of the refs, values positional, the item's value on
\* the refs it names, the old value on the others.
C6_SetMerge ==
  [][(last'.op = "edit" /\ last'.ok) =>
       LET c == last'.c
           it == last'.items[1]
       IN \A t \in SlotTimes(case[c].act_set) :
            IsSetAt(it, t) =>
              LET old == ActsAt(Visible(c).act_set, t)
                  new == ActsAt(VisibleNext(c).act_set, t)
              IN \A i \in DOMAIN old :
                   old[i][1] = it.var =>
                     /\ Cardinality({j \in DOMAIN new :
                                      new[j][1] = old[i][1] /\ new[j][2] = old[i][2]}) = 1
                     /\ i \in DOMAIN new
                     /\ Merged(old[i], new[i], it)
    ]_vars

\* C6 witness: an element of x was set on a case that already held the other
\* element of x at time 0; the action now carries both
C6_Witness ==
  /\ last.op = "edit" /\ last.ok
  /\ last.items[1] = Item("x", RngList(<<1>>), AtNum(0), Vals(<<1>>))
  /\ \E a \in Range(ActsAt(Visible(last.c).act_set, 0)) :
       a[1] = "x" /\ a[3] = <<1, 3>> /\ a[4] = <<2, 1>>

\* C7: a step changes what is visible in the case it operates on only: a later
\* read_spec_item on a parent (also one that extends an action list in place)
\* changes nothing in its children, and the construction of a child changes
\* none of the three tables of its parent or of any other case.
C7_CopyNotReference ==
  [][\A c \in Existing : last'.c # c => VisibleNext(c) = Visible(c)]_vars

\* C7 witness: a parent was changed at a slot its child inherited, and the
\* child still holds the inherited content
C7_Witness ==
  /\ last.op = "edit" /\ last.ok
  /\ \E c \in Existing :
       /\ case[c].parent = last.c /\ case[c].status = "built"
       /\ \E t \in SlotTimes(case[c].act_set) \cap SlotTimes(case[last.c].act_set) :
            IsSetAt(last.items[1], t)
            /\ ActsAt(Visible(c).act_set, t) # ActsAt(Visible(last.c).act_set, t)

\* C8: a child whose spec sets v at time 0, below a parent that holds a set
\* action for v at time 0, holds exactly one set action for v and that
\* component, at the list position of the inherited one and carrying the
\* child's values; the other inherited set actions are as they were, and so is
\* the parent's table.
C8_ChildOverride ==
  [][(last'.op = "new" /\ last'.ok /\ Len(last'.items) = 1 /\ IsSetAt(last'.items[1], 0)) =>
       LET c == last'.c
           it == last'.items[1]
           old == ActsAt(Visible(last'.par).act_set, 0)
           new == ActsAt(VisibleNext(c).act_set, 0)
       IN /\ \A i \in DOMAIN old :
               /\ i \in DOMAIN new
               /\ IF old[i][1] = it.var
                  THEN /\ Merged(old[i], new[i], it)
                       /\ \A j \in DOMAIN new :
                            (new[j][1] = old[i][1] /\ new[j][2] = old[i][2]) => j = i
                  ELSE new[i] = old[i]
          /\ ActsAt(VisibleNext(last'.par).act_set, 0) = old
    ]_vars

\* C8 witness: the child replaced g = 1, inherited at a position behind other
\* actions, by g = 2
C8_Witness ==
  /\ last.op = "new" /\ last.ok
  /\ last.items = <<Item("g", RngNone, AtNum(0), Vals(<<2>>))>>
  /\ LET old == ActsAt(Visible(last.par).act_set, 0)
         new == ActsAt(Visible(last.c).act_set, 0)
     IN \E i \in DOMAIN old :
          /\ i > 1 /\ i \in DOMAIN new
          /\ old[i] = SetAct("g", "bb", <<5>>, <<1>>)
          /\ new[i] = SetAct("g", "bb", <<5>>, <<2>>)

\* C9: every slot of every get-action table holds at most one get action per
\* case variable and component, and each get action carries all refs of its
\* case variable.
C9_GetTable ==
  \A c \in Existing :
    \A sl \in Range(Visible(c).act_get) :
      /\ \A i, j \in DOMAIN sl.acts :
           (sl.acts[i][1] = sl.acts[j][1] /\ sl.acts[i][2] = sl.acts[j][2]) => i = j
      /\ \A i \in DOMAIN sl.acts : sl.acts[i][3] = variables[sl.acts[i][1]].refs

\* C9 witness: a get of one element of x was registered at a time at which the
\* inherited table already held the get of x
C9_Witness ==
  /\ last.op = "new" /\ last.ok
  /\ last.items = <<Item("x", RngList(<<0>>), AtNum(1), None)>>
  /\ \E a \in Range(ActsAt(Visible(last.par).act_get, TimeFac)) : a[1] = "x"
  /\ \E a \in Range(ActsAt(Visible(last.c).act_get, TimeFac)) : a[1] = "x" /\ a[3] = <<1, 3>>


(* ----------------------- properties of Case.run (C1-C5) ---------------- *)
\* The set actions of the slot at position j of the set table
SetActs(j) == lists[SetTable[j].l]

\* Action a of the set slot of time t was executed before position i of the log
SetDoneBefore(t, a, i) ==
  \E m \in 1..(i - 1) : log[m].e = "set" /\ log[m].t = t /\ log[m].act = a

\* C1: every set action registered at a time T with tstart <= T <= tstop, on
\* the step grid or not, has been executed when run_until is called with a
\* target time greater than T
C1_SetBeforeAdvance ==
  \A i \in DOMAIN log :
    log[i].e = "run" =>
      \A j \in DOMAIN SetTable :
        (tstart <= SetTable[j].t /\ SetTable[j].t <= tstop /\ SetTable[j].t < log[i].t) =>
          \A k \in DOMAIN SetActs(j) : SetDoneBefore(SetTable[j].t, SetActs(j)[k], i)

\* On the step grid the ordering of C1 does hold: a set action at a grid time T
\* in range is executed before run_until is called with a target beyond T
OnGrid(t) == (t - tstart) % tstep = 0
C1_OnGridSetBeforeAdvance ==
  \A i \in DOMAIN log :
    log[i].e = "run" =>
      \A j \in DOMAIN SetTable :
        (OnGrid(SetTable[j].t) /\ tstart <= SetTable[j].t /\ SetTable[j].t <= tstop
           /\ SetTable[j].t < log[i].t) =>
          \A k \in DOMAIN SetActs(j) : SetDoneBefore(SetTable[j].t, SetActs(j)[k], i)

\* A run in which run_until was called with a target beyond the time of a set
\* action in range
C1_Witness ==
  \E i \in DOMAIN log, j \in DOMAIN SetTable :
    /\ log[i].e = "run" /\ SetTable[j].t < log[i].t
    /\ tstart <= SetTable[j].t /\ SetTable[j].t <= tstop
    /\ Len(SetActs(j)) > 0

\* C2: every timed get action registered at T >= 0 is executed only after a
\* run_until with target >= T has answered success, and after every set
\* action registered at an earlier time has been executed
C2_GetAfterStepAndSets ==
  \A i \in DOMAIN log :
    log[i].e = "get" =>
      /\ \E m \in 1..(i - 1) : log[m].e = "run" /\ log[m].t >= log[i].t /\ log[m].act[1]
      /\ \A j \in DOMAIN SetTable :
           SetTable[j].t < log[i].t =>
             \A k \in DOMAIN SetActs(j) : SetDoneBefore(SetTable[j].t, SetActs(j)[k], i)

\* The first half of C2 alone: a timed get action is executed only after a
\* successful run_until with a target at or beyond its time
C2_GetAfterStep ==
  \A i \in DOMAIN log :
    log[i].e = "get" =>
      \E m \in 1..(i - 1) : log[m].e = "run" /\ log[m].t >= log[i].t /\ log[m].act[1]

\* A timed get action was executed in a case that sets a value at an earlier time
C2_Witness ==
  \E i \in DOMAIN log, j \in DOMAIN SetTable :
    log[i].e = "get" /\ SetTable[j].t < log[i].t /\ Len(SetActs(j)) > 0

\* C3: Case.run terminates: it never enters the while loop of do_actions with
\* a slot that is due and has no actions, which that loop never leaves
C3_Terminates == pc # "spin"

\* A run that did terminate after at least one step
C3_Witness == pc = "done" /\ \E i \in DOMAIN log : log[i].e = "run"

\* The last call to the simulator was a run_until that answered false
Failed == Len(log) > 0 /\ log[Len(log)].e = "run" /\ ~log[Len(log)].act[1]

\* C4: after run_until answered false no further call is made to the
\* simulator, the Results store keeps every record unchanged, and the only
\* thing still done is saving the results, which happens iff dump is not None
\* (a step from "done" is the next call of run)
C4_FailedStepEndsRun ==
  [][(Failed /\ pc # "done") =>
       /\ log' = log /\ res' = res /\ sim' = sim
       /\ pc' = "done" /\ saved' = dump]_vars

\* A run that ended after a failed step with records in the store, saved
C4_Witness == Failed /\ pc = "done" /\ saved /\ Len(res) > 1 /\ Len(log) > 2

\* The start value of v the run should record: the declared one, overridden
\* by the set actions of the slot of time 0
RECURSIVE Override(_, _, _, _)
Override(vals, v, acts, i) ==
  IF i > Len(acts) THEN vals
  ELSE Override(IF acts[i][1] = v
                THEN [n \in DOMAIN vals |->
                        IF variables[v].refs[n] \in Range(acts[i][3])
                        THEN ValueOf(acts[i], variables[v].refs[n]) ELSE vals[n]]
                ELSE vals,
                v, acts, i + 1)
ActsAtZero ==
  IF \E j \in DOMAIN SetTable : SetTable[j].t = 0
  THEN SetActs(CHOOSE j \in DOMAIN SetTable : SetTable[j].t = 0)
  ELSE <<>>
ExpectedStart(v) == Override(get_starts[v], v, ActsAtZero, 1)
StartRecords(v) == {i \in DOMAIN res : res[i].key.v = tstart /\ res[i].key.int /\ res[i].cvar = v}

\* C5: when the main loop begins, the store holds the start value of every
\* case variable that has one, once per component, and the values are the
\* declared start values overridden by exactly the set actions at time 0
C5_StartRecord ==
  (pc = "set" /\ log = <<>> /\ time = tstart) =>
    \A v \in DOMAIN get_starts :
      /\ StartRecords(v) # {}
      /\ \A i \in StartRecords(v) :
           /\ res[i].val = ExpectedStart(v)
           /\ \A n \in StartRecords(v) : res[n].comp = res[i].comp => n = i

\* The same with a set table whose first slot is the one of time 0
C5_StartRecordFirstSlotZero ==
  (pc = "set" /\ log = <<>> /\ time = tstart /\ Len(SetTable) > 0 /\ SetTable[1].t = 0) =>
    \A v \in DOMAIN get_starts :
      /\ StartRecords(v) # {}
      /\ \A i \in StartRecords(v) :
           /\ res[i].val = ExpectedStart(v)
           /\ \A n \in StartRecords(v) : res[n].comp = res[i].comp => n = i

\* The main loop begins in a case whose only set action is later than time 0
C5_Witness ==
  /\ pc = "set" /\ log = <<>> /\ time = tstart
  /\ Len(SetTable) > 0 /\ \A j \in DOMAIN SetTable : SetTable[j].t > 0

C11_PassedOnlyIfAlwaysTrue ==
  (asserted.stored /\ temporal = "A" /\ asserted.passed) =>
    \A i \in DOMAIN data : Truth(data[i])

\* An assertion of type A was evaluated on a series of several rows and passed
C11_Witness ==
  asserted.stored /\ temporal = "A" /\ asserted.passed /\ Len(data) >= 2

StrictlyIncreasing(d) == \A i \in 1..(Len(d) - 1) : d[i].t < d[i + 1].t
\* The rows from i to the end are all true, and i is the first such row
LongestTrueSuffix(d, i) ==
  /\ \A j \in i..Len(d) : Truth(d[j])
  /\ i > 1 => ~Truth(d[i - 1])

\* C12: for Finally on a series with strictly increasing times the verdict is
\* true exactly when some non-empty suffix is all true (the last row alone
\* included), and the time is then that of the first row of the longest such
\* suffix
C12_FinallySuffix ==
  (ret.called /\ temporal = "F" /\ Len(data) > 0 /\ StrictlyIncreasing(data)) =>
    /\ ~ret.raised
    /\ ret.v <=> Truth(data[Len(data)])
    /\ ret.v => \E i \in DOMAIN data : LongestTrueSuffix(data, i) /\ ret.t = data[i].t

\* What the code does: the same with suffixes of at least two rows
C12_FinallySuffixOfTwo ==
  (ret.called /\ temporal = "F" /\ Len(data) > 0 /\ StrictlyIncreasing(data)) =>
    /\ ~ret.raised
    /\ ret.v <=> (Len(data) >= 2 /\ Truth(data[Len(data)]) /\ Truth(data[Len(data) - 1]))
    /\ ret.v => \E i \in DOMAIN data : LongestTrueSuffix(data, i) /\ ret.t = data[i].t

\* Finally was evaluated on a series with increasing times whose only true
\* suffix is the last row
C12_Witness ==
  /\ ret.called /\ temporal = "F" /\ Len(data) >= 2 /\ StrictlyIncreasing(data)
  /\ Truth(data[Len(data)]) /\ ~Truth(data[Len(data) - 1])

\* The expression is false at a row, true at a later row and false again at a
\* row after that
Relapse(d) ==
  \E i, j, k \in DOMAIN d : i < j /\ j < k /\ ~Truth(d[i]) /\ Truth(d[j]) /\ ~Truth(d[k])
LastFalse(d) == CHOOSE k \in DOMAIN d : ~Truth(d[k]) /\ \A j \in (k + 1)..Len(d) : Truth(d[j])

\* C13 as stated: for Finally, a series in which the expression is false,
\* becomes true and is false again at a later row has the verdict false
C13_RelapseIsFalse ==
  (ret.called /\ temporal = "F" /\ StrictlyIncreasing(data) /\ Relapse(data)) => ~ret.v

\* C13 amended: for Finally on strictly increasing times such a series has the
\* verdict false when it ends with a false row; when at least two true rows
\* follow its last false row the relapse only resets the time: the verdict is
\* true with the time of the row after the last false row
C13_RelapseResets ==
  (ret.called /\ temporal = "F" /\ StrictlyIncreasing(data) /\ Relapse(data)) =>
    /\ ~ret.raised
    /\ ~Truth(data[Len(data)]) => ~ret.v
    /\ Len(data) - LastFalse(data) >= 2 =>
         (ret.v /\ ret.t = data[LastFalse(data) + 1].t)

\* Finally was evaluated on a series that is false, true, false and ends false
C13_Witness ==
  /\ ret.called /\ temporal = "F" /\ StrictlyIncreasing(data) /\ Relapse(data)
  /\ ~Truth(data[Len(data)]) /\ ~ret.v

\* C14: do_assert never raises, whatever the store holds, and stores a verdict
C14_DoAssertNeverRaises ==
  asserted.called => (~asserted.raised /\ asserted.stored)

\* do_assert with at least one row in the series does not raise
C14_NonEmptyNeverRaises ==
  (asserted.called /\ Len(data) > 0) => (~asserted.raised /\ asserted.stored)

\* do_assert ran on a store whose records all lack the variable
C14_Witness ==
  asserted.called /\ Len(store) > 0 /\ \A i \in DOMAIN store : store[i].x = NoVal

(* --------------- properties of allowed_action (C15, C16) --------------- *)
\* A call allowed_action('set', ...) on at least one variable has returned
SetChecked == allowed.called /\ ~allowed.raised /\ query.action = "set" /\ Len(query.infos) > 0

\* The variables of the query have the same type, causality and variability
EqualProperties ==
  \A i \in DOMAIN query.infos :
    /\ query.infos[i].type = query.infos[1].type
    /\ query.infos[i].causality = query.infos[1].causality
    /\ query.infos[i].variability = query.infos[1].variability

\* The initial attribute of the first variable, the default where it has none
QueryInitial ==
  IF query.infos[1].initial = ""
  THEN default_initial(query.infos[1].causality, query.infos[1].variability)
  ELSE query.infos[1].initial

\* C15 as stated: allowed_action('set', ..., 0) returns true only if the initial
\* of the variable is exact or approx and its causality is input
C15_TimeZeroNeedsInput ==
  (SetChecked /\ query.time = 0 /\ allowed.ok) =>
    (QueryInitial \in {"exact", "approx"} /\ query.infos[1].causality = "input")

\* The rule of the code for a set at time 0
InitRule ==
  /\ query.infos[1].variability # "constant"
  /\ (QueryInitial = "exact" \/ query.infos[1].causality = "input")

\* C15 amended: allowed_action('set', ..., 0) returns true only if the variable
\* is not constant and either its initial is exact or its causality is input;
\* for variables of equal type, causality and variability it returns true
\* exactly then
C15_TimeZeroExactOrInput ==
  (SetChecked /\ query.time = 0) =>
    /\ allowed.ok => InitRule
    /\ (EqualProperties /\ InitRule) => allowed.ok
    /\ (~allowed.ok /\ ~InitRule) => message = <<"Change of", <<"v", 0>>, "during Initialization">>

\* A parameter with initial exact has been set at time 0
C15_Witness ==
  /\ SetChecked /\ query.time = 0 /\ allowed.ok
  /\ query.infos[1].causality = "parameter" /\ QueryInitial = "exact"

\* The rule of the code for a set at a communication point
StepRule ==
  \/ query.infos[1].causality = "input"
  \/ query.infos[1].causality = "parameter" /\ query.infos[1].variability = "tunable"

C17_FailedCaseLeavesTree ==
  [][(last'.op = "new" /\ ~last'.ok) =>
       \A c \in CaseNames \ {last'.c} : case'[c] = case[c]]_vars

\* The part of C17 on the actions: a case whose first item fails the legality
\* check holds the actions it inherited and no others
C17_NoActionFromFailingItemOn ==
  (last.op = "new" /\ ~last.ok /\ last.items[1] = IllegalItem) =>
    /\ message = <<"Change of", <<"g", 0>>, "at communication point">>
    /\ Visible(last.c).act_set = Visible(last.par).act_set
    /\ Visible(last.c).act_get = Visible(last.par).act_get

\* The construction of a case of two items has failed at the first item, and
\* the case is in the list of sub-cases of its parent
C17_Witness ==
  /\ last.op = "new" /\ ~last.ok
  /\ Len(last.items) = 2 /\ last.items[1] = IllegalItem
  /\ case[last.c].status = "failed"
  /\ last.c \in Range(case[last.par].subs)

(* ---------------- properties of the periodic get (C18) ----------------- *)
\* The last operation compiled the item 'h@step<d>' with d > 0
StepItemCompiled(d) ==
  /\ last.ok
  /\ \E i \in DOMAIN last.items : last.items[i] = Item("h", RngNone, AtStepN(d), None)

\* Table tab has a get of h at time t
HasGetAt(tab, t) == \E i \in DOMAIN ActsAt(tab, t) : ActsAt(tab, t)[i][1] = "h"

\* C18: an item 'h@step<d>' with d > 0 registers gets of h at the times d, 2d,
\* ... up to the stop time of the case, on the scaled clock of all timed actions
C18_PeriodicGetUntilStop ==
  \A d \in 1..MaxTime :
    StepItemCompiled(d) =>
      \A k \in 1..(Visible(last.c).special.stopTime \div d) :
        HasGetAt(Visible(last.c).act_get, k * d * TimeFac)

\* What the code registers: the gets of h at the multiples of the scaled
\* interval that lie below the unscaled stop time
C18_PeriodicGetBelowUnscaledStop ==
  \A d \in 1..MaxTime :
    StepItemCompiled(d) =>
      \A t \in 1..(MaxTime * TimeFac) :
        (t % (d * TimeFac) = 0 /\ t < Visible(last.c).special.stopTime) =>
          HasGetAt(Visible(last.c).act_get, t)

\* 'h@step1' has been compiled in a case that stops after more than one
\* interval, and the get of the first interval is registered
C18_Witness ==
  /\ StepItemCompiled(1)
  /\ Visible(last.c).special.stopTime >= 2
  /\ HasGetAt(Visible(last.c).act_get, TimeFac)

(* -------------- properties of the continuous gets (C19) ---------------- *)
\* The calls of run_until in the log, and the one that follows position i
RunCalls == {i \in DOMAIN log : log[i].e = "run"}
NextRunCall(i) ==
  IF \E m \in RunCalls : m > i THEN CHOOSE m \in RunCalls : m > i /\ \A n \in RunCalls : n > i => m <= n
  ELSE Len(log) + 1

\* The loop body after the run_until call at position i has been left
BodyLeft(i) == ~(pc = "get" /\ NextRunCall(i) = Len(log) + 1)

\* The executions of the continuous get a that follow the run_until call at i
ContAfter(i, a) ==
  {j \in (i + 1)..(NextRunCall(i) - 1) : log[j].e = "cont" /\ log[j].act = a}

\* Every continuous get is executed, and its value recorded, exactly once
\* after the successful run_until call at i, under the time of that step
ContinuousDone(i) ==
  \A k \in DOMAIN act_step :
    /\ Cardinality(ContAfter(i, act_step[k])) = 1
    /\ \A j \in ContAfter(i, act_step[k]) : log[j].at = log[i].t
    /\ \E n \in DOMAIN res :
         /\ res[n].key = FloatKey(log[i].t \div TimeFac)
         /\ res[n].comp = act_step[k][2] /\ res[n].cvar = act_step[k][1]

\* A continuous get is executed at no other moment: only after a run_until
\* call that answered success
ContinuousOnlyAfterStep ==
  \A j \in DOMAIN log :
    log[j].e = "cont" =>
      \E i \in RunCalls : i < j /\ NextRunCall(i) > j /\ log[i].act[1] /\ log[i].t = log[j].at

\* C19: every continuous get is executed and recorded exactly once after each
\* run_until call that answered success, under the time of that step, and at
\* no other moment
C19_ContinuousGetEachStep ==
  /\ \A i \in RunCalls : (log[i].act[1] /\ BodyLeft(i)) => ContinuousDone(i)
  /\ ContinuousOnlyAfterStep

\* The same for the runs that do not hang in do_actions
C19_ContinuousGetEachStepUnlessHung ==
  /\ pc # "spin" => \A i \in RunCalls : (log[i].act[1] /\ BodyLeft(i)) => ContinuousDone(i)
  /\ ContinuousOnlyAfterStep

\* A run with a continuous get has made two successful steps and a failed one
C19_Witness ==
  /\ pc = "done" /\ Len(act_step) > 0
  /\ Cardinality({i \in RunCalls : log[i].act[1]}) >= 2
  /\ \E i \in RunCalls : ~log[i].act[1]
  /\ \A i \in RunCalls : log[i].act[1] => ContinuousDone(i)

(* ------------- properties of the get of the final value (C20) ---------- *)
\* Case c has a get of h at its own stop time, in the state (cs, ls, sps)
FinalGetIn(cs, ls, sps, c) ==
  HasGetAt(VisibleIn(cs, ls, sps, c).act_get, VisibleIn(cs, ls, sps, c).special.stopTime * TimeFac)

\* C20: a get item written without '@' is scheduled at the stop time of every
\* case that has it: a new case whose parent has the get of h at the parent's
\* stop time has it at its own stop time, also when it overrides stopTime
C20_FinalGetAtOwnStopTime ==
  [][(last'.op = "new" /\ last'.ok /\ FinalGetIn(case, lists, specials, last'.par)) =>
       FinalGetIn(case', lists', specials', last'.c)]_vars

\* What holds: the new case has the get of h at the stop time of its parent
C20_FinalGetAtParentStopTime ==
  [][(last'.op = "new" /\ last'.ok /\ FinalGetIn(case, lists, specials, last'.par)) =>
       HasGetAt(VisibleNext(last'.c).act_get, Visible(last'.par).special.stopTime * TimeFac)]_vars

\* A case that overrides stopTime was made below a case with a get of h at
\* its stop time
C20_Witness ==
  /\ last.op = "new" /\ last.ok
  /\ last.items = <<Item("stopTime", RngNone, AtNone, Vals(<<MaxTime - 1>>))>>
  /\ FinalGetIn(case, lists, specials, last.par)
  /\ Visible(last.c).special.stopTime # Visible(last.par).special.stopTime

\* The run part of C20: a run without failed steps of a case with a get of h
\* at its stop time executes that get exactly once, at the stop time, and
\* records the value under stopTime
C20_FinalGetExecutedOnce ==
  (/\ pc = "done"
   /\ \A i \in RunCalls : log[i].act[1]
   /\ FinalGetIn(case, lists, specials, RunCase)) =>
    /\ Cardinality({j \in DOMAIN log : log[j].e = "get" /\ log[j].t = tstop /\ log[j].act[1] = "h"}) = 1
    /\ \A j \in DOMAIN log :
         (log[j].e = "get" /\ log[j].t = tstop /\ log[j].act[1] = "h") => log[j].at = tstop
    /\ \E n \in DOMAIN res : res[n].key = FloatKey(RunSpecial.stopTime) /\ res[n].cvar = "h"

\* The same for the runs whose stop time is a grid point start + k * step, k > 0
C20_FinalGetExecutedOnceOnGrid ==
  (/\ RunSpecial.stopTime > RunSpecial.startTime
   /\ (RunSpecial.stopTime - RunSpecial.startTime) % RunSpecial.stepSize = 0) =>
    C20_FinalGetExecutedOnce

(* ------------------ properties of Results.retrieve (C21) --------------- *)
\* The record at position i of the store holds every requested field
Complete(i) == \A k \in DOMAIN request : rstore[i].f[request[k]] # NoVal

\* The rows of the table for the time of record i
RowsOf(i) == {r \in DOMAIN table.rows : table.rows[r].t = rstore[i].t}

\* C21: retrieve returns exactly one row (time, field 1, ..., field n) for
\* every recorded time at which all requested fields are present, no row for a
\* time at which one is missing, and the rows in the order of the records
C21_InnerJoinOnTime ==
  table.called =>
    /\ \A i \in DOMAIN rstore :
         IF Complete(i)
         THEN /\ Cardinality(RowsOf(i)) = 1
              /\ \A r \in RowsOf(i) :
                   table.rows[r].v = [k \in DOMAIN request |-> rstore[i].f[request[k]]]
         ELSE RowsOf(i) = {}
    /\ \A r \in DOMAIN table.rows : \E i \in DOMAIN rstore : r \in RowsOf(i)
    /\ \A i, j \in DOMAIN rstore, r \in DOMAIN table.rows, q \in DOMAIN table.rows :
         (r \in RowsOf(i) /\ q \in RowsOf(j) /\ i < j) => r < q

\* Two fields were retrieved from a store of three records, not in the order
\* of their times, of which the second lacks the second field only
C21_Witness ==
  /\ table.called /\ Len(request) = 2 /\ request[1] # request[2]
  /\ Len(rstore) = 3 /\ rstore[1].t > rstore[3].t
  /\ Complete(1) /\ Complete(3)
  /\ rstore[2].f[request[1]] # NoVal /\ rstore[2].f[request[2]] = NoVal
  /\ Len(table.rows) = 2

(* ------------------ properties of Results.inspect (C22) ---------------- *)
\* The time at which a record was taken: the start record is taken at the
\* start time, every other record at the clock of the run, in user units
RecordedTime(rec) == IF rec.key.int THEN RunSpecial.startTime ELSE rec.key.v
RecordedTimes(comp, cvar) ==
  {RecordedTime(res[i]) : i \in {j \in DOMAIN res : res[j].comp = comp /\ res[j].cvar = cvar}}
MinOf(S) == CHOOSE a \in S : \A b \in S : a <= b
MaxOf(S) == CHOOSE a \in S : \A b \in S : a >= b

\* inspect reports for (comp, cvar) the number of recorded times and the
\* range from the smallest to the largest of them
InspectRight(comp, cvar) ==
  /\ inspect(res, comp, cvar).len = Cardinality(RecordedTimes(comp, cvar))
  /\ inspect(res, comp, cvar).range =
       <<MinOf(RecordedTimes(comp, cvar)), MaxOf(RecordedTimes(comp, cvar))>>

\* C22: for the Results of any run, also of a case that does not start at 0,
\* inspect reports for every component.variable of the store the number of
\* recorded times that contain it and the range [smallest, largest] of them
C22_InspectLenAndRange ==
  pc = "done" => \A i \in DOMAIN res : InspectRight(res[i].comp, res[i].cvar)

\* The same for the runs that start at 0
C22_InspectLenAndRangeStartZero ==
  (pc = "done" /\ RunSpecial.startTime = 0) =>
    \A i \in DOMAIN res : InspectRight(res[i].comp, res[i].cvar)

\* A run that started at 1 has ended with a start record and a later record
\* of the same variable
C22_Witness ==
  /\ pc = "done" /\ RunSpecial.startTime = 1
  /\ \E i, j \in DOMAIN res :
       /\ res[i].key.int /\ ~res[j].key.int
       /\ res[i].comp = res[j].comp /\ res[i].cvar = res[j].cvar
       /\ inspect(res, res[i].comp, res[i].cvar).len = 2

(* --------------- properties of the Results of a run (C23) -------------- *)
\* The records of the Results object with identity id, for the objects of
\* held: what the case writes goes to the object it refers to
ContentOf(i) == IF held[i].id = resid THEN res ELSE held[i].snap

\* C23: every call of run makes a new, empty Results object and writes only to
\* it: the object of an earlier run is another object than the one of the
\* current run, none of its records changes or is lost, and the store of the
\* current run holds only records written in this run, the start records first
C23_ResultsOwnedByOneRun ==
  /\ \A i \in DOMAIN held :
       /\ held[i].id # resid
       /\ ContentOf(i) = held[i].snap
  /\ (pc \in {"set", "raised"} /\ log = <<>>) => \A n \in DOMAIN res : res[n].key.int
  /\ \A n \in DOMAIN res :
       \/ res[n].key.int
       \/ \E j \in DOMAIN log : log[j].e \in {"get", "cont"} /\ res[n].key = FloatKey(log[j].at \div TimeFac)

\* A case was run twice with records in both runs, the first of which recorded
\* a value at a time the second run has not reached
C23_Witness ==
  /\ Len(held) = 1 /\ pc = "done" /\ Len(res) > 0
  /\ \E n \in DOMAIN held[1].snap :
       /\ ~held[1].snap[n].key.int
       /\ \A k \in DOMAIN res : res[k].key # held[1].snap[n].key

(* ------------------ the frame of a run of a case (C24) ----------------- *)
\* C24: no step of a run changes the set action table, the get action table or
\* the special values of any case (case holds every case, lists the slots and
\* rows of their tables, specials their special values), nor the start values
\* registered for the case variables
C24_RunLeavesCasesUnchanged ==
  [][/\ case' = case
     /\ lists' = lists
     /\ specials' = specials
     /\ regstarts' = regstarts]_vars

\* The case was run and then run again, the second run ended early at a step
\* of the simulator that failed,
\* and the first slot of its set table gives start values other than the
\* registered ones; a second case hangs below the case that was run
C24_Witness ==
  /\ Len(held) = 1 /\ pc = "done" /\ Failed
  /\ "c1" \in DOMAIN case
  /\ Len(SetTable) > 0
  /\ FoldStarts([ok |-> TRUE, starts |-> regstarts], lists[SetTable[1].l], 1).starts # regstarts

(* ---------------- interpolation at a requested time (C25) -------------- *)
\* The requested time lies between the sample times of rows i and i + 1
Between(i) == Len(args) > 0 /\ data[i].t < args[1] /\ args[1] < data[i + 1].t

\* va + (vb - va)*(t0 - ta)/(tb - ta) for rows i and i + 1, times (tb - ta)
Blend(i) ==
  data[i].x.n * (data[i + 1].t - data[i].t)
    + (data[i + 1].x.n - data[i].x.n) * (args[1] - data[i].t)

\* C25: eval_series of type Time with a requested time t0 between two
\* consecutive sample times ta < t0 < tb returns (t0, va + (vb - va)*(t0 -
\* ta)/(tb - ta)), va and vb the values of the expression at ta and tb
C25_TimeInterpolates ==
  (ret.called /\ temporal = "T") =>
    \A i \in 1..(Len(data) - 1) :
      Between(i) =>
        /\ ~ret.raised
        /\ ret.t = args[1]
        /\ ret.v.num * (data[i + 1].t - data[i].t) = Blend(i) * ret.v.den

\* C25, as the code has it: that number is returned unless every value of the
\* expression in the series is a bool, and then the bool of that number is
C25_TimeInterpolatesUnlessAllBool ==
  (ret.called /\ temporal = "T") =>
    \A i \in 1..(Len(data) - 1) :
      Between(i) =>
        /\ ~ret.raised
        /\ ret.t = args[1]
        /\ IF \A k \in DOMAIN data : data[k].x.bool
           THEN ret.v = Bool(Blend(i) # 0)
           ELSE /\ ~ret.v.bool
                /\ ret.v.num * (data[i + 1].t - data[i].t) = Blend(i) * ret.v.den

\* A time between two samples with different numbers as values, a third of the
\* way from the one to the other
C25_Witness ==
  /\ ret.called /\ temporal = "T" /\ ~ret.raised
  /\ \E i \in 1..(Len(data) - 1) :
       /\ Between(i)
       /\ ~data[i].x.bool /\ data[i].x.n # data[i + 1].x.n
       /\ data[i + 1].t - data[i].t = 3
       /\ ~ret.v.bool /\ ret.v.den = 3 /\ ret.v.num % 3 # 0

(* ------------------- the time part of a spec key (C26) ----------------- *)
\* What the claim says of the key txt.item, given what is to be said of a
\* suffix that begins with 'step' and goes on with a text that is no number
TimePartRule(a, steptext_ok) ==
  LET it == txt.item
      novalue == it.val \in {None, ResMarker}
      nonempty == ~novalue /\ num_elements(it.val) > 0
  IN IF it.var = "" THEN ~a.ok
     ELSE /\ (it.at = AtNone /\ novalue) =>
               a.ok /\ a.typ = "get" /\ a.arg = txt.stopTime
          /\ (it.at = AtNone /\ nonempty) => a.ok /\ a.typ = "set" /\ a.arg = 0
          /\ (it.at.k = "num" /\ nonempty) => a.ok /\ a.typ = "set" /\ a.arg = it.at.arg
          /\ (it.at.k = "num" /\ ~nonempty) => a.ok /\ a.typ = "get" /\ a.arg = it.at.arg
          /\ it.at = AtStep => a.ok /\ a.typ = "step" /\ a.arg = -1
          /\ it.at.k = "stepn" => a.ok /\ a.typ = "step" /\ a.arg = it.at.arg
          /\ it.at = AtBad => ~a.ok
          /\ it.at = AtStepText =>
               IF steptext_ok THEN a.ok /\ a.typ = "step" /\ a.arg = -1 ELSE ~a.ok

\* C26: no '@' and no value (or 'result'/'res') gives a get at the stop time
\* of the case, no '@' with a value a set at the start, '@<number>' a set at
\* the number when a non-empty value is given and else a get at it, '@step' a
\* continuous get (-1), '@step<number>' a periodic get with that interval; an
\* empty name before '@' and any other suffix are rejected
C26_TimePartClassified == parsed.at.called => TimePartRule(parsed.at, FALSE)

\* What the code does: the same, but a suffix 'step' followed by a text that
\* is no number is a continuous get
C26_TimePartStepPrefixIsContinuous == parsed.at.called => TimePartRule(parsed.at, TRUE)

\* A key with a name and a suffix that begins with 'step' and is no number
C26_Witness ==
  parsed.at.called /\ txt.item.var = "x" /\ txt.item.at = AtStepText /\ txt.item.val = None

(* --------------------- the range of a spec key (C27) ------------------- *)
\* The number of elements of the alias of the key
AliasLen == Len(variables[txt.item.var].refs)

\* The parts in the brackets of the key are indices of the alias, all of them
IndexList ==
  /\ txt.item.rng.k = "parts"
  /\ \A i \in DOMAIN txt.item.rng.parts :
       /\ txt.item.rng.parts[i].k = "idx"
       /\ txt.item.rng.parts[i].i \in 0..(AliasLen - 1)

\* The brackets of the key hold one ellipsis range
OneEllipsis ==
  /\ txt.item.rng.k = "parts"
  /\ Len(txt.item.rng.parts) = 1
  /\ txt.item.rng.parts[1].k = "ell"

\* The left bound of that range, 0 when it is omitted
LeftBound == IF Len(txt.item.rng.parts[1].lo) = 0 THEN 0 ELSE txt.item.rng.parts[1].lo[1]

\* What the key with alias name and brackets r gave
Gave(name, r, rng) ==
  (txt.item.var = name /\ txt.item.rng = r) => (parsed.var.ok /\ parsed.var.rng = rng)

\* C27: for an alias with n elements disect_variable returns all indices
\* 0..n-1 for a key without brackets ([0] when n = 1), [i] for 'x[i]', the
\* listed indices in the given order for 'x[i,j,...]', and for an ellipsis
\* range the consecutive indices from the left bound (0 when omitted), up to
\* the end of the alias when the right bound is omitted; on n = 3: 'x' gives
\* [0,1,2], 'x[1]' gives [1], 'x[0,2]' gives [0,2], 'x[1..]' gives [1,2]
C27_RangeOfKey ==
  (parsed.var.called /\ txt.item.var \in CVars) =>
    /\ txt.item.rng = RngNone =>
         /\ parsed.var.ok
         /\ parsed.var.rng = [i \in 1..AliasLen |-> i - 1]
         /\ AliasLen = 1 => parsed.var.rng = <<0>>
    /\ IndexList =>
         /\ parsed.var.ok
         /\ parsed.var.rng = [i \in DOMAIN txt.item.rng.parts |-> txt.item.rng.parts[i].i]
    /\ (OneEllipsis /\ parsed.var.ok) =>
         /\ \A i \in DOMAIN parsed.var.rng : parsed.var.rng[i] = LeftBound + i - 1
         /\ Len(txt.item.rng.parts[1].hi) = 0 => Len(parsed.var.rng) = AliasLen - LeftBound
    /\ (OneEllipsis /\ LeftBound \in 0..(AliasLen - 1) /\ Len(txt.item.rng.parts[1].hi) = 0) =>
         parsed.var.ok
    /\ Gave("p", RngNone, <<0, 1, 2>>)
    /\ Gave("p", RngList(<<1>>), <<1>>)
    /\ Gave("p", RngList(<<0, 2>>), <<0, 2>>)
    /\ Gave("p", RngEllipsis(<<1>>, <<>>), <<1, 2>>)

\* The key 'p[1..]' of the alias p with three elements was disected
C27_Witness ==
  /\ parsed.var.called /\ parsed.var.ok
  /\ txt.item.var = "p"
  /\ txt.item.rng = RngEllipsis(<<1>>, <<>>) /\ parsed.var.rng = <<1, 2>>

(* ------------------ indices outside of the alias (C28) ----------------- *)
\* The brackets hold indices only, one of them outside of the alias
IndexOutside ==
  /\ txt.item.rng.k = "parts"
  /\ \A i \in DOMAIN txt.item.rng.parts : txt.item.rng.parts[i].k = "idx"
  /\ \E i \in DOMAIN txt.item.rng.parts : txt.item.rng.parts[i].i \notin 0..(AliasLen - 1)

\* The brackets hold one ellipsis range with a left bound that is given and
\* is not among the indices 0..last
LeftBoundOutside(lastIndex) ==
  /\ OneEllipsis
  /\ Len(txt.item.rng.parts[1].lo) = 1
  /\ LeftBound \notin 0..lastIndex

Fails == ~parsed.var.ok /\ parsed.var.rng = <<>>

\* C28: disect_variable fails, returning no range, for every key that names
\* an index outside 0..n-1 of an alias with n elements: as a single index, as
\* an index of a list, as the start index of an ellipsis range
C28_IndexOutsideFails ==
  (parsed.var.called /\ txt.item.var \in CVars) =>
    /\ IndexOutside => Fails
    /\ LeftBoundOutside(AliasLen - 1) => Fails

\* What the code does: the start index n of an ellipsis range is let through
C28_IndexOutsideFailsButStartAtLen ==
  (parsed.var.called /\ txt.item.var \in CVars) =>
    /\ IndexOutside => Fails
    /\ LeftBoundOutside(AliasLen) => Fails

\* The key 'p[3..]' of the alias p with three elements was disected
C28_Witness ==
  /\ parsed.var.called
  /\ txt.item.var = "p" /\ txt.item.rng = RngEllipsis(<<3>>, <<>>)

(* ------------- the instances of the start records (C29) ---------------- *)
\* The components the start record of v was written for
StartComps(v) == {res[i].comp : i \in StartRecords(v)}

\* Case.run is at the head of its main loop for the first time
LoopBegins == pc = "set" /\ log = <<>> /\ time = tstart

\* C29: for every case variable v that has a start value the start record is
\* written for exactly the component instances of v, and a case without any
\* set action gets to the main loop with these records as well
C29_StartRecordForOwnInstances ==
  /\ LoopBegins =>
       \A v \in DOMAIN regstarts : StartComps(v) = Range(variables[v].instances)
  /\ (pc # "idle" /\ Len(SetTable) = 0 /\ log = <<>>) => pc # "raised"

\* What the code does: the records of every v are written for the instances
\* of the case variable of the last set action of the first slot of the set
\* table, and without a set action run raises before the main loop
C29_StartRecordForInstancesOfLastSet ==
  /\ LoopBegins =>
       /\ Len(SetTable) > 0
       /\ \A v \in DOMAIN regstarts :
            StartComps(v) = Range(variables[SetActs(1)[Len(SetActs(1))][1]].instances)
  /\ (pc # "idle" /\ Len(SetTable) = 0 /\ log = <<>>) => pc = "raised"

\* The main loop begins with a start record of x, an alias of two components,
\* written for one of them only
C29_Witness ==
  /\ LoopBegins
  /\ Cardinality(Range(variables["x"].instances)) = 2
  /\ StartComps("x") = {"bb"}

(* ---------------- assertions of different cases (C30) ------------------ *)
\* The keys the case declares
DeclaredKeys(c) == {declared[c][i].key : i \in DOMAIN declared[c]}

\* C30: what a case reports for its keys (the expression, the temporal type,
\* the verdict and the case it belongs to) is not changed by the registering
\* or the evaluating of the assertions of another case, also when both cases
\* declare the same key
C30_AssertionsIsolated ==
  [][\A c \in made : acted' # c => report(c)' = report(c)]_vars

\* What the code does: what a case reports is left alone for the keys the
\* acting case does not declare
C30_AssertionsIsolatedForOtherKeys ==
  [][\A c \in made : acted' # c =>
       \A i \in DOMAIN asserts[c] :
         asserts[c][i] \notin DeclaredKeys(acted') => report(c)'[i] = report(c)[i]]_vars

\* Both cases declare the key "1" with different expressions, the base case
\* was evaluated and then the other case
C30_Witness ==
  /\ made = AssertCases
  /\ "1" \in DeclaredKeys("base") \cap DeclaredKeys("c1")
  /\ \E i \in DOMAIN declared["base"] :
       /\ declared["base"][i].key = "1"
       /\ declared["base"][i].expr # exprs["1"]
  /\ assertions["1"].stored /\ assertions["1"].case = "c1"
  /\ "2" \in DeclaredKeys("base") /\ assertions["2"].case = "base"

====
